---- MODULE Spec2Model ----
(***************************************************************************)
(* llm-api-engine: the endpoint store, the API-key / rate-limit gate, the  *)
(* extraction worker, the deploy routes and the in-process scheduler.      *)
(*                                                                         *)
(* Every handler is an async function: it runs without interruption up to  *)
(* its next `await`, so each action below is one such segment of a handler *)
(* and a handler in flight is a task whose pc names the await it is at.    *)
(* Time is counted in ticks; one minute (60 000 ms) is RATE_LIMIT_WINDOW   *)
(* ticks.                                                                  *)
(***************************************************************************)
EXTENDS Integers, Sequences, FiniteSets, TLC

\* ------------------------------------------------------------------ bounds
\* The clock stops at MaxTime; where only the auth gate runs, at GateTime;
\* where its requests overlap, at ConcTime.
MaxTime == 3
GateTime == 5
ConcTime == 2
\* auth.ts: RATE_LIMIT_MAX = 60 requests, scaled down.
RATE_LIMIT_MAX == 2
\* auth.ts: RATE_LIMIT_WINDOW = 60 * 1000 ms, scaled down: ticks per minute.
RATE_LIMIT_WINDOW == 3
\* Handlers in flight at once, where handlers overlap.
MaxTasks == 2
\* MAX_AGE of the results route (24 hours), in clock ticks of its own scale:
\* shorter than the period of every cron expression of the model, as 24 hours
\* are shorter than the period of a weekly or monthly update
MAX_AGE == 2

\* ------------------------------------------------------------ value spaces
Null == 0 - 1
NoToken == ""

\* generateApiKey: `sk_` + 24 random bytes; the values a call can return.
ApiKeys == {"sk_1", "sk_2"}

\* crypto.randomBytes(IV_LENGTH)
IVs == {"iv1"}
\* process.env.ENCRYPTION_KEY: unset, or a configured secret.
Secrets == {"unset", "s1"}
\* crypto.randomBytes(32).toString('hex'), the fallback secret of one call
RandomSecrets == {"rnd1", "rnd2"}

EmptyData == [keys |-> {}]
Payloads == {[keys |-> {"name"}, rev |-> 1], [keys |-> {"name"}, rev |-> 2]}

LowerCase == {"a", "b", "c", "d", "e", "f", "g", "h", "i", "j", "k", "l", "m",
              "n", "o", "p", "q", "r", "s", "t", "u", "v", "w", "x", "y", "z"}
Digits == {"0", "1", "2", "3", "4", "5", "6", "7", "8", "9"}

\* route strings of deploy requests, as sequences of characters
RawRoutes == {<<"a">>, <<"A", " ">>, <<"-", "a", "!", "!">>}

\* ------------------------------------------------------------ pure helpers
\* { ...m, ...u }
Merge(m, u) ==
  [k \in DOMAIN m \cup DOMAIN u |-> IF k \in DOMAIN u THEN u[k] ELSE m[k]]

ToLowerChar(c) ==
  CASE c = "A" -> "a"
    [] c = "B" -> "b"
    [] OTHER -> c

RECURSIVE toLowerCase(_)
toLowerCase(s) ==
  IF s = <<>> THEN <<>> ELSE <<ToLowerChar(Head(s))>> \o toLowerCase(Tail(s))

\* .replace(/[^a-z0-9-_]/g, '-')
RECURSIVE ReplaceDisallowed(_)
ReplaceDisallowed(s) ==
  IF s = <<>> THEN <<>>
  ELSE <<IF Head(s) \in LowerCase \cup Digits \cup {"-", "_"} THEN Head(s) ELSE "-">>
       \o ReplaceDisallowed(Tail(s))

\* .replace(/-+/g, '-')
RECURSIVE CollapseHyphens(_)
CollapseHyphens(s) ==
  IF Len(s) < 2 THEN s
  ELSE IF s[1] = "-" /\ s[2] = "-" THEN CollapseHyphens(Tail(s))
  ELSE <<s[1]>> \o CollapseHyphens(Tail(s))

\* .replace(/^-|-$/g, '')
StripEdgeHyphens(s) ==
  LET a == IF s # <<>> /\ s[1] = "-" THEN Tail(s) ELSE s
  IN  IF a # <<>> /\ a[Len(a)] = "-" THEN SubSeq(a, 1, Len(a) - 1) ELSE a

\* .trim()
RECURSIVE TrimLeft(_)
TrimLeft(s) == IF s # <<>> /\ s[1] = " " THEN TrimLeft(Tail(s)) ELSE s

RECURSIVE TrimRight(_)
TrimRight(s) ==
  IF s # <<>> /\ s[Len(s)] = " " THEN TrimRight(SubSeq(s, 1, Len(s) - 1)) ELSE s

\* route.toLowerCase().replace(/[^a-z0-9-_]/g,'-').replace(/-+/g,'-')
\*      .replace(/^-|-$/g,'').trim()
cleanRoute(route) ==
  TrimRight(TrimLeft(StripEdgeHyphens(CollapseHyphens(
    ReplaceDisallowed(toLowerCase(route))))))

\* the routes deploy requests create, and a route only other writers of the
\* store use
OtherRoute == <<"b">>
Routes == {cleanRoute(r) : r \in RawRoutes} \cup {OtherRoute}

\* ------------------------------------------------------------------ crypto
\* getEncryptionKey(): sha256 of ENCRYPTION_KEY, or of a secret drawn afresh
\* by this very call when none is configured.
EncryptionKeys(secret) ==
  IF secret = "unset" THEN {<<"sha256", r>> : r \in RandomSecrets}
  ELSE {<<"sha256", secret>>}

\* A string value of metadata.firecrawlApiKey: the plaintext, or
\* `${iv hex}:${ciphertext hex}` where the ciphertext is determined by the
\* key, the iv and the plaintext.
PlainText(text) == [form |-> "plain", iv |-> "", key |-> <<>>, text |-> text]
CipherText(iv, key, text) == [form |-> "iv:ct", iv |-> iv, key |-> key, text |-> text]

\* an encrypt that hands its input back
encryptNothing(text, secret) == {PlainText(text)}

\* encrypt(text), for each iv and key the call can draw
encrypt(text, secret) ==
  {CipherText(iv, k, text) : iv \in IVs, k \in EncryptionKeys(secret)}

\* decrypt(text): the plaintext under the key that encrypted it; under any
\* other key the final block's padding check throws ("#throw") or, for the
\* rare well-padded garbage, returns garbage ("#garbage"); a value without
\* the `:` separator throws.
decrypt(c, secret) ==
  IF c.form # "iv:ct" THEN {"#throw"}
  ELSE UNION {IF k = c.key THEN {c.text} ELSE {"#throw", "#garbage"} :
              k \in EncryptionKeys(secret)}

\* ------------------------------------------------------------------- state
VARIABLES
  store,          \* the key-value store: api/results/{route} -> stored value
  rate,           \* rate_limit:{apiKey} -> sorted set, a set of [member, score]
  rateExpiry,     \* rate_limit:{apiKey} -> the time its TTL runs out
  now,            \* the clock (Date.now())
  secret,         \* process.env.ENCRYPTION_KEY
  tasks,          \* handlers in flight: slot -> task
  timers,         \* pending setTimeout callbacks
  scheduledJobs,  \* scheduler.ts: the Map endpoint -> timer handle
  authResult,     \* output of the step just taken: validateApiKey's result
  deployResult,   \* output of the step just taken: the deploy route's answer
  extResult,      \* output of the step just taken: extractAndUpdateData's result
  admitted,       \* history: apiKey -> Date.now() -> requests admitted with it
  schedResult,    \* output of the step just taken: scheduleEndpoint's result
  readResult,     \* output of the step just taken: the results route's response
  initialized,    \* the init route's module variable `initialized`
  initResult,     \* output of the step just taken: the init route's response
  proxyResult     \* output of the step just taken: the extract proxy's response

vars == <<store, rate, rateExpiry, now, secret, tasks, timers, scheduledJobs,
          authResult, deployResult, extResult, admitted, schedResult, readResult,
          initialized, initResult, proxyResult>>

Slots == 1..MaxTasks
Idle == [kind |-> "idle"]
Busy == {i \in Slots : tasks[i] # Idle}
\* the slot a new handler takes
FreeSlot(i) == tasks[i] = Idle /\ \A j \in Slots : j < i => tasks[j] # Idle

Times == 0..(MaxTime + GateTime)
\* later than every time: the expiry of a key without TTL
Never == MaxTime + GateTime + 1

\* ------------------------------------------------------- the store's values
\* A value the store holds under api/results/{route}: an endpoint record
\* [data, metadata], or something another writer left there: a string that
\* is not JSON, an object without metadata.
NotJson == [raw |-> "not json"]
IsEndpointKey(r) == r \in DOMAIN store
HasMetadata(v) == "metadata" \in DOMAIN v
MetadataOf(v) == IF HasMetadata(v) THEN v.metadata ELSE <<>>
\* !m[field]: undefined, null, '' and 0 are falsy; objects and arrays are not
Missing(m, field) ==
  \/ field \notin DOMAIN m
  \/ field \in {"query", "updateFrequency", "apiKey", "updateStatus", "lastError"}
       /\ m[field] = ""

\* ----------------------------------------------------------------- outputs
AuthFailure(e, token, code, err) ==
  [endpoint |-> e, token |-> token, isAuthenticated |-> FALSE, statusCode |-> code,
   error |-> err, metadata |-> <<>>, currentTime |-> Null, recent |-> 0]

DeployError(handler, route, status, error) ==
  [handler |-> handler, route |-> route, status |-> status, success |-> FALSE,
   apiKey |-> NoToken, error |-> error, extractionStatus |-> "",
   extractionError |-> "", updateScheduled |-> FALSE, scheduled |-> FALSE]

NoAuthResult == AuthFailure(<<>>, NoToken, 0, "")
NoDeployResult == DeployError("", <<>>, 0, "")
NoExtResult ==
  [endpoint |-> <<>>, caller |-> "", success |-> FALSE, data |-> EmptyData,
   error |-> "", pre |-> <<>>, post |-> <<>>, calledAt |-> Null, time |-> Null]

\* scheduleEndpoint(endpoint) has not returned in this step
NoSchedResult == [endpoint |-> <<>>, caller |-> "", ok |-> FALSE]

\* values of the results route's response that are `undefined` or NaN
Undefined == [value |-> "undefined"]
UndefinedTime == 0 - 2
NaN == 0 - 3

\* the results route has not responded in this step
NoReadResult ==
  [endpoint |-> <<>>, status |-> 0, success |-> FALSE, data |-> Undefined,
   lastUpdated |-> UndefinedTime, sources |-> <<>>, isFresh |-> FALSE, age |-> NaN,
   updateStatus |-> "", warning |-> FALSE, error |-> "", includeSchema |-> FALSE,
   waited |-> FALSE, time |-> Null]

\* the init route has not responded in this step
NoInitResult == [status |-> 0, success |-> FALSE, message |-> ""]

\* the extract proxy has not responded in this step
NoProxyResult == [status |-> 0, success |-> FALSE, data |-> EmptyData, error |-> ""]

\* what the step answers; a step that answers nothing clears the outputs.
\* Only the init route answers on its own behalf and sets `initialized`.
OutAll(a, d, x, s, r) ==
  /\ authResult' = a /\ deployResult' = d /\ extResult' = x
  /\ schedResult' = s /\ readResult' = r
  /\ initResult' = NoInitResult /\ initialized' = initialized
  /\ proxyResult' = NoProxyResult

\* the extract proxy answers y
OutProxy(y) ==
  /\ authResult' = NoAuthResult /\ deployResult' = NoDeployResult
  /\ extResult' = NoExtResult /\ schedResult' = NoSchedResult
  /\ readResult' = NoReadResult
  /\ initResult' = NoInitResult /\ initialized' = initialized
  /\ proxyResult' = y

\* the init route answers g after its last scheduleEndpoint call returned s
\* (NoSchedResult when there was none) and leaves `initialized` as flag
OutInit(s, g, flag) ==
  /\ authResult' = NoAuthResult /\ deployResult' = NoDeployResult
  /\ extResult' = NoExtResult /\ schedResult' = s /\ readResult' = NoReadResult
  /\ initResult' = g /\ initialized' = flag
  /\ proxyResult' = NoProxyResult
Out(a, d, x) == OutAll(a, d, x, NoSchedResult, NoReadResult)
NoOut == Out(NoAuthResult, NoDeployResult, NoExtResult)

\* --------------------------------------------------------------- auth gate
\* The Authorization header as its space-separated pieces; <<>> when absent.
Headers ==
  {<<>>, <<"Bearer">>, <<"Bearer", " ">>, <<"bearer", " ", "sk_1">>,
   <<"Basic", " ", "sk_1">>, <<"Bearer", " ", "sk_1", " ", "x">>}
  \cup {<<"Bearer", " ", k>> : k \in ApiKeys \cup {"sk_other"}}

\* getApiKey(): null unless the header starts with 'Bearer ', else the piece
\* between the first and the second space. null and '' are both NoToken: the
\* only use is `!apiKey`.
getApiKey(h) ==
  IF Len(h) >= 2 /\ h[1] = "Bearer" /\ h[2] = " "
  THEN IF Len(h) >= 3 /\ h[3] # " " THEN h[3] ELSE NoToken
  ELSE NoToken

\* the sorted set under rate_limit:{apiKey} as the store sees it at time t
LiveSet(k, t) == IF t >= rateExpiry[k] THEN {} ELSE rate[k]

\* a range read that ignores its lower end
zrangeUpTo(set, lo, hi) == {e \in set : e.score <= hi}

\* ZRANGE key lo hi BYSCORE
zrange(set, lo, hi) == {e \in set : lo <= e.score /\ e.score <= hi}
\* ZADD key score member: a member already present only changes its score
zadd(set, score, member) ==
  {e \in set : e.member # member} \cup {[member |-> member, score |-> score]}
\* ZREMRANGEBYSCORE key lo hi
zremrangebyscore(set, lo, hi) == {e \in set : ~(lo <= e.score /\ e.score <= hi)}
\* EXPIRE key seconds, at time t: no effect on a key that does not exist
expire(set, old, t, ttl) == IF set = {} THEN old ELSE t + ttl

\* history: the times in the window ending at t at which requests with
\* token k were admitted
RecentlyAdmitted(k, t) ==
  {u \in Times : u > t - RATE_LIMIT_WINDOW /\ u <= t /\ admitted[k][u] > 0}

\* GET /api/results/{endpoint}: validateApiKey(endpoint), up to `await redis.get`
ValidateStart(i, limit) ==
  /\ FreeSlot(i)
  /\ Cardinality(Busy) < limit
  /\ \E e \in Routes, h \in Headers :
       IF getApiKey(h) = NoToken
       THEN /\ Out(AuthFailure(e, NoToken, 401, "Missing or invalid Authorization header"),
                   NoDeployResult, NoExtResult)
            /\ tasks' = tasks
       ELSE /\ tasks' = [tasks EXCEPT ![i] =
                 [kind |-> "validate", pc |-> "get", endpoint |-> e,
                  apiKey |-> getApiKey(h)]]
            /\ NoOut
  /\ UNCHANGED <<store, rate, rateExpiry, now, secret, timers, scheduledJobs, admitted>>

\* GET /api/results/{endpoint}[?schema=true]: as ValidateStart; the handler
\* goes on after validateApiKey
ReadStart(i, limit) ==
  /\ FreeSlot(i)
  /\ Cardinality(Busy) < limit
  /\ \E e \in Routes, h \in Headers, includeSchema \in BOOLEAN :
       IF getApiKey(h) = NoToken
       THEN /\ Out(AuthFailure(e, NoToken, 401, "Missing or invalid Authorization header"),
                   NoDeployResult, NoExtResult)
            /\ tasks' = tasks
       ELSE /\ tasks' = [tasks EXCEPT ![i] =
                 [kind |-> "validate", pc |-> "get", endpoint |-> e,
                  apiKey |-> getApiKey(h), includeSchema |-> includeSchema]]
            /\ NoOut
  /\ UNCHANGED <<store, rate, rateExpiry, now, secret, timers, scheduledJobs, admitted>>

\* a parse that takes every stored value for JSON
ParsesAnything(storedData) == TRUE

\* the parse of validateApiKey: a stored string that is not JSON throws
Parses(storedData) == storedData # NotJson

\* a comparison satisfied by the apiKey of any endpoint
apiKeyOfAnyEndpoint(storedData, apiKey) ==
  ~Missing(MetadataOf(storedData), "apiKey") /\ apiKey \in ApiKeys

\* !(!data?.metadata?.apiKey || data.metadata.apiKey !== apiKey)
apiKeyMatches(storedData, apiKey) ==
  /\ ~Missing(MetadataOf(storedData), "apiKey")
  /\ storedData.metadata.apiKey = apiKey

\* validateApiKey from the answer of redis.get up to checkRateLimit's
\* `await redis.zrange`
ValidateRead(i) ==
  /\ tasks[i].kind = "validate" /\ tasks[i].pc = "get"
  /\ LET t == tasks[i]
         e == t.endpoint
         fail(code, err) ==
           /\ Out(AuthFailure(e, t.apiKey, code, err), NoDeployResult, NoExtResult)
           /\ tasks' = [tasks EXCEPT ![i] = Idle]
     IN  IF ~IsEndpointKey(e) THEN fail(404, "Endpoint not found")
         ELSE IF ~Parses(store[e]) THEN fail(500, "Invalid data format")
         ELSE IF ~apiKeyMatches(store[e], t.apiKey)
              THEN fail(401, "Invalid API key")
         ELSE /\ tasks' = [tasks EXCEPT ![i] =
                   Merge(t, [pc |-> "zrange", metadata |-> store[e].metadata,
                             currentTime |-> now,
                             recent |-> Cardinality(RecentlyAdmitted(t.apiKey, now))])]
              /\ NoOut
  /\ UNCHANGED <<store, rate, rateExpiry, now, secret, timers, scheduledJobs, admitted>>

\* a checkRateLimit that enters the request in the set before it rejects it
ValidateZrangeCountsRejected(i) ==
  /\ tasks[i].kind = "validate" /\ tasks[i].pc = "zrange"
  /\ LET t == tasks[i]
         windowStart == t.currentTime - RATE_LIMIT_WINDOW
         requests == zrange(LiveSet(t.apiKey, now), windowStart, t.currentTime)
     IN  IF Cardinality(requests) >= RATE_LIMIT_MAX
         THEN /\ Out([AuthFailure(t.endpoint, t.apiKey, 429, "Rate limit exceeded")
                        EXCEPT !.currentTime = t.currentTime, !.recent = t.recent],
                     NoDeployResult, NoExtResult)
              /\ tasks' = [tasks EXCEPT ![i] = Idle]
              /\ rate' = [rate EXCEPT ![t.apiKey] =
                            zadd(LiveSet(t.apiKey, now), t.currentTime, t.currentTime)]
         ELSE /\ tasks' = [tasks EXCEPT ![i].pc = "zadd"]
              /\ NoOut
              /\ rate' = rate
  /\ UNCHANGED <<store, rateExpiry, now, secret, timers, scheduledJobs, admitted>>

\* checkRateLimit: the answer of zrange, up to `await redis.zadd`
ValidateZrange(i) ==
  /\ tasks[i].kind = "validate" /\ tasks[i].pc = "zrange"
  /\ LET t == tasks[i]
         windowStart == t.currentTime - RATE_LIMIT_WINDOW
         requests == zrange(LiveSet(t.apiKey, now), windowStart, t.currentTime)
     IN  IF Cardinality(requests) >= RATE_LIMIT_MAX
         THEN /\ Out([AuthFailure(t.endpoint, t.apiKey, 429, "Rate limit exceeded")
                        EXCEPT !.currentTime = t.currentTime, !.recent = t.recent],
                     NoDeployResult, NoExtResult)
              /\ tasks' = [tasks EXCEPT ![i] = Idle]
         ELSE /\ tasks' = [tasks EXCEPT ![i].pc = "zadd"]
              /\ NoOut
  /\ UNCHANGED <<store, rate, rateExpiry, now, secret, timers, scheduledJobs, admitted>>

\* checkRateLimit: redis.zadd(rateKey, {score: currentTime, member:
\* currentTime.toString()}), up to `await redis.zremrangebyscore`. toString
\* is one-to-one on times: the member is modelled by the time itself. A key
\* whose TTL ran out is created anew, without TTL.
ValidateZadd(i) ==
  /\ tasks[i].kind = "validate" /\ tasks[i].pc = "zadd"
  /\ LET t == tasks[i]
         k == t.apiKey
     IN  /\ rate' = [rate EXCEPT ![k] = zadd(LiveSet(k, now), t.currentTime, t.currentTime)]
         /\ rateExpiry' = [rateExpiry EXCEPT ![k] = IF LiveSet(k, now) = {} THEN Never ELSE @]
  /\ tasks' = [tasks EXCEPT ![i].pc = "zrem"]
  /\ NoOut
  /\ UNCHANGED <<store, now, secret, timers, scheduledJobs, admitted>>

\* checkRateLimit: redis.zremrangebyscore(rateKey, 0, windowStart), up to
\* `await redis.expire`
ValidateZrem(i) ==
  /\ tasks[i].kind = "validate" /\ tasks[i].pc = "zrem"
  /\ LET t == tasks[i]
         k == t.apiKey
     IN  rate' = [rate EXCEPT ![k] =
                    zremrangebyscore(LiveSet(k, now), 0, t.currentTime - RATE_LIMIT_WINDOW)]
  /\ tasks' = [tasks EXCEPT ![i].pc = "expire"]
  /\ NoOut
  /\ UNCHANGED <<store, rateExpiry, now, secret, timers, scheduledJobs, admitted>>

\* where validateApiKey returns to: the results route goes on to its
\* `await redis.get(endpoint)`; a bare validateApiKey call ends
AfterAuth(t) ==
  IF "includeSchema" \in DOMAIN t
  THEN [kind |-> "read", pc |-> "r_get", endpoint |-> t.endpoint,
        apiKey |-> t.apiKey, includeSchema |-> t.includeSchema]
  ELSE Idle

\* checkRateLimit: redis.expire(rateKey, 60), one minute; then validateApiKey
\* returns { isAuthenticated: true, metadata }. With track, the admission
\* is entered in the history, which counts up to RATE_LIMIT_MAX + 1.
ValidateExpire(i, track) ==
  /\ tasks[i].kind = "validate" /\ tasks[i].pc = "expire"
  /\ LET t == tasks[i]
         k == t.apiKey
     IN  /\ rateExpiry' = [rateExpiry EXCEPT ![k] =
                             expire(LiveSet(k, now), @, now, RATE_LIMIT_WINDOW)]
         /\ rate' = [rate EXCEPT ![k] = LiveSet(k, now)]
         /\ Out([endpoint |-> t.endpoint, token |-> t.apiKey,
                 isAuthenticated |-> TRUE, statusCode |-> 200, error |-> "",
                 metadata |-> t.metadata, currentTime |-> t.currentTime,
                 recent |-> t.recent],
                NoDeployResult, NoExtResult)
         /\ admitted' = IF track
                        THEN [admitted EXCEPT ![k][t.currentTime] =
                                IF @ > RATE_LIMIT_MAX THEN @ ELSE @ + 1]
                        ELSE admitted
  /\ tasks' = [tasks EXCEPT ![i] = AfterAuth(tasks[i])]
  /\ UNCHANGED <<store, now, secret, timers, scheduledJobs>>

\* ------------------------------------------------------- the results route
\* createErrorResponse(error, status) of the results route
ReadError(t, status, error, waited) ==
  [endpoint |-> t.endpoint, status |-> status, success |-> FALSE, data |-> Undefined,
   lastUpdated |-> UndefinedTime, sources |-> <<>>, isFresh |-> FALSE, age |-> NaN,
   updateStatus |-> "", warning |-> FALSE, error |-> error,
   includeSchema |-> t.includeSchema, waited |-> waited, time |-> now]

\* isFresh = age < MAX_AGE; NaN compares false
IsFresh(age) == age # NaN /\ age < MAX_AGE

\* a response that carries the whole stored object with or without ?schema=true
ResponseWholeRecord(t, storedData, waited) ==
  LET m == MetadataOf(storedData)
      lastUpdated == IF "lastUpdated" \in DOMAIN m THEN m.lastUpdated ELSE UndefinedTime
      age == IF lastUpdated = UndefinedTime THEN NaN ELSE now - lastUpdated
      updateStatus == IF "updateStatus" \in DOMAIN m THEN m.updateStatus ELSE "undefined"
  IN  [endpoint |-> t.endpoint, status |-> 200, success |-> TRUE,
       data |-> storedData,
       lastUpdated |-> lastUpdated,
       sources |-> IF "sources" \in DOMAIN m THEN m.sources ELSE <<>>,
       isFresh |-> IsFresh(age), age |-> age, updateStatus |-> updateStatus,
       warning |-> ~IsFresh(age),
       error |-> IF updateStatus = "failed" /\ "lastError" \in DOMAIN m
                 THEN m.lastError ELSE "",
       includeSchema |-> t.includeSchema, waited |-> waited, time |-> now]

\* the 200 response built from storedData at the time of the step: data is
\* the whole stored object with ?schema=true; a property that is not there
\* is undefined (sources: <<>>), an age from an undefined lastUpdated is NaN;
\* age is kept in ticks
Response(t, storedData, waited) ==
  LET m == MetadataOf(storedData)
      lastUpdated == IF "lastUpdated" \in DOMAIN m THEN m.lastUpdated ELSE UndefinedTime
      age == IF lastUpdated = UndefinedTime THEN NaN ELSE now - lastUpdated
      updateStatus == IF "updateStatus" \in DOMAIN m THEN m.updateStatus ELSE "undefined"
  IN  [endpoint |-> t.endpoint, status |-> 200, success |-> TRUE,
       data |-> IF t.includeSchema THEN storedData
                ELSE IF "data" \in DOMAIN storedData THEN storedData.data
                ELSE Undefined,
       lastUpdated |-> lastUpdated,
       sources |-> IF "sources" \in DOMAIN m THEN m.sources ELSE <<>>,
       isFresh |-> IsFresh(age), age |-> age, updateStatus |-> updateStatus,
       warning |-> ~IsFresh(age),
       error |-> IF updateStatus = "failed" /\ "lastError" \in DOMAIN m
                 THEN m.lastError ELSE "",
       includeSchema |-> t.includeSchema, waited |-> waited, time |-> now]

\* the handler responds r and ends
Respond(i, r) ==
  /\ OutAll(NoAuthResult, NoDeployResult, NoExtResult, NoSchedResult, r)
  /\ tasks' = [tasks EXCEPT ![i] = Idle]

\* the answer of `redis.get(endpoint)` (line 48): 404 without a value, 500
\* for a string that is not JSON; for a record that is initializing the call
\* of waitForInitialization up to its `await redis.get`; else the response
ReadGet(i) ==
  /\ tasks[i].kind = "read" /\ tasks[i].pc = "r_get"
  /\ LET t == tasks[i]
         e == t.endpoint
     IN  IF ~IsEndpointKey(e)
         THEN Respond(i, ReadError(t, 404, "No results found for this endpoint", FALSE))
         ELSE IF store[e] = NotJson
         THEN Respond(i, ReadError(t, 500, "Invalid data format in storage", FALSE))
         ELSE IF ~Missing(MetadataOf(store[e]), "updateStatus")
                 /\ store[e].metadata.updateStatus = "initializing"
         THEN /\ tasks' = [tasks EXCEPT ![i] =
                   Merge(t, [pc |-> "w_get", storedData |-> store[e], startTime |-> now])]
              /\ NoOut
         ELSE Respond(i, Response(t, store[e], FALSE))
  /\ UNCHANGED <<store, rate, rateExpiry, now, secret, timers, scheduledJobs, admitted>>

\* waitForInitialization, the answer of its `redis.get` (line 16). The client
\* hands a stored JSON value back as an object, so JSON.parse is given '{}',
\* parsed.metadata is undefined, the function returns true on its first
\* round, and GET goes on to the refreshing `await redis.get` (line 67); the
\* 500 ms sleep is only reached for a value handed back as a string that
\* parses as JSON, which the client never does. Without a value: false, and
\* GET answers 504; a string that is not JSON makes JSON.parse throw into
\* GET's catch
WaitGet(i) ==
  /\ tasks[i].kind = "read" /\ tasks[i].pc = "w_get"
  /\ LET t == tasks[i]
         e == t.endpoint
     IN  IF ~IsEndpointKey(e)
         THEN Respond(i, ReadError(t, 504, "Endpoint initialization timed out", TRUE))
         ELSE IF store[e] = NotJson
         THEN Respond(i, ReadError(t, 500, "Failed to fetch results", TRUE))
         ELSE /\ tasks' = [tasks EXCEPT ![i].pc = "r_refresh"]
              /\ NoOut
  /\ UNCHANGED <<store, rate, rateExpiry, now, secret, timers, scheduledJobs, admitted>>

\* the answer of the refreshing `redis.get` (line 67): a value that is there
\* replaces storedData by JSON.parse('{}'), the object without properties
\* (EmptyData), as the client hands back an object; then the response
ReadRefresh(i) ==
  /\ tasks[i].kind = "read" /\ tasks[i].pc = "r_refresh"
  /\ LET t == tasks[i]
         e == t.endpoint
     IN  IF ~IsEndpointKey(e)
         THEN Respond(i, Response(t, t.storedData, TRUE))
         ELSE IF store[e] = NotJson
         THEN Respond(i, ReadError(t, 500, "Failed to fetch results", TRUE))
         ELSE Respond(i, Response(t, EmptyData, TRUE))
  /\ UNCHANGED <<store, rate, rateExpiry, now, secret, timers, scheduledJobs, admitted>>

\* ------------------------------------------------------------------- clock
Tick(max) ==
  /\ now < max
  /\ now' = now + 1
  /\ NoOut
  /\ UNCHANGED <<store, rate, rateExpiry, secret, tasks, timers, scheduledJobs, admitted>>

\* ------------------------------------------------------- extraction worker
\* what `await firecrawl.extract(...)` can come back with
ExtractOutcomes ==
  {[kind |-> "data", data |-> p, error |-> ""] : p \in Payloads}
  \cup {[kind |-> "error", data |-> EmptyData, error |-> "upstream error"],
        [kind |-> "nodata", data |-> EmptyData, error |-> ""],
        [kind |-> "throws", data |-> EmptyData, error |-> "network error"]}

\* the checks of extractAndUpdateData before the external call: the message
\* of the Error thrown, "" when none is
LocalValidationError(schema, sources, firecrawlApiKey) ==
  IF firecrawlApiKey = "" THEN "Firecrawl API key is required"
  ELSE IF "properties" \notin DOMAIN schema THEN "Invalid schema format"
  ELSE IF sources = <<>> THEN "At least one source URL is required"
  ELSE ""

\* no schema was sent to the extraction service
NoSchema == [type |-> ""]

\* a normalization that adds the property keys to the required ones
formattedSchemaAddKeys(schema) ==
  [type |-> "object", properties |-> schema.properties,
   required |-> IF "required" \in DOMAIN schema
                THEN schema.required \cup {"all"} ELSE schema.properties]

\* the schema sent to the extraction service; properties is the set of its
\* keys, required a set of keys (an empty array is truthy)
formattedSchema(schema) ==
  [type |-> "object", properties |-> schema.properties,
   required |-> IF "required" \in DOMAIN schema
                THEN schema.required ELSE schema.properties]

\* a success record that leaves lastUpdateAttempt as it was stored
SuccessUpdateKeepsAttempt(storedData, data, t) ==
  [data |-> data,
   metadata |-> Merge(MetadataOf(storedData),
                      [lastUpdated |-> t, lastSuccessfulUpdate |-> t,
                       updateStatus |-> "success"])]

\* a success record built without the stored metadata
SuccessUpdateFresh(storedData, data, t) ==
  [data |-> data,
   metadata |-> [lastUpdated |-> t, lastUpdateAttempt |-> t,
                 lastSuccessfulUpdate |-> t, updateStatus |-> "success"]]

\* the record written after a successful extraction
SuccessUpdate(storedData, data, t) ==
  [data |-> data,
   metadata |-> Merge(MetadataOf(storedData),
                      [lastUpdated |-> t, lastUpdateAttempt |-> t,
                       lastSuccessfulUpdate |-> t, updateStatus |-> "success"])]

\* storedData.data || {}
DataOrEmpty(storedData) ==
  IF "data" \in DOMAIN storedData THEN storedData.data ELSE EmptyData

\* a failure record built without the stored metadata
FailureUpdateBare(storedData, message, t) ==
  [data |-> DataOrEmpty(storedData),
   metadata |-> [lastUpdateAttempt |-> t, updateStatus |-> "failed",
                 lastError |-> message]]

\* a failure record that empties the data
FailureUpdateClearing(storedData, message, t) ==
  [data |-> EmptyData,
   metadata |-> Merge(MetadataOf(storedData),
                      [lastUpdateAttempt |-> t, updateStatus |-> "failed",
                       lastError |-> message])]

\* the record written after a failed extraction
FailureUpdate(storedData, message, t) ==
  [data |-> DataOrEmpty(storedData),
   metadata |-> Merge(MetadataOf(storedData),
                      [lastUpdateAttempt |-> t, updateStatus |-> "failed",
                       lastError |-> message])]

\* A call of extractAndUpdateData(endpoint, query, schema, sources, key) by
\* task t, up to its first await: the external call, or, when a local check
\* throws, the catch block's redis.get. History: pre is the stored value at
\* the call, <<>> when there is none, calledAt the time of the call.
ExtEnter(t, endpoint, query, schema, sources, key, pre) ==
  LET err == LocalValidationError(schema, sources, key)
  IN  Merge(t, [pc |-> IF err = "" THEN "x_call" ELSE "x_fail_get",
                endpoint |-> endpoint, query |-> query, schema |-> schema,
                sources |-> sources, key |-> key, error |-> err, pre |-> pre,
                calledAt |-> now,
                sent |-> IF err = "" THEN formattedSchema(schema) ELSE NoSchema])

InExtract(i, pc) == tasks[i].kind \in {"deploy", "update"} /\ tasks[i].pc = pc

\* ---------------------------------------------------------------- scheduler
\* updateFrequency strings: the deploy route's regex accepts the first three,
\* cron-parser the first two.
Crons == {"*/1 * * * *", "*/2 * * * *", "61 * * * *", "every minute"}
CronMatchesRegex(c) == c \in {"*/1 * * * *", "*/2 * * * *", "61 * * * *"}
CronParses(c) == c \in {"*/1 * * * *", "*/2 * * * *"}
CronMinutes(c) == IF c = "*/2 * * * *" THEN 2 ELSE 1
\* cronParser.parseExpression(c).next().getTime(): the first matching minute
\* boundary strictly after t
nextRun(c, t) ==
  LET period == CronMinutes(c) * RATE_LIMIT_WINDOW
  IN  ((t \div period) + 1) * period

requiredFields == {"query", "schema", "sources", "updateFrequency", "firecrawlApiKey"}

\* a handle no pending timer and no entry of scheduledJobs has
NewTimerId(jobs) ==
  LET used == {tm.id : tm \in timers} \cup {jobs[e] : e \in DOMAIN jobs}
  IN  CHOOSE n \in 1..(Cardinality(used) + 1) :
        n \notin used /\ \A m \in 1..(n - 1) : m \in used

\* deploy's answer after the first extraction (and scheduleEndpoint, if called)
DeployAnswer(t, extractionOk, error, scheduled) ==
  [handler |-> "deploy", route |-> t.route, status |-> 200, success |-> TRUE,
   apiKey |-> t.apiKey, error |-> "",
   extractionStatus |-> IF extractionOk THEN "success" ELSE "failed",
   extractionError |-> error, updateScheduled |-> extractionOk,
   scheduled |-> scheduled]

\* the init route's 200 answers
InitAnswer(message) == [status |-> 200, success |-> TRUE, message |-> message]

\* a bootstrap whose scan stops at the first endpoint that cannot be scheduled
SchedReturnStopOnFailure(i, ok) ==
  LET t == tasks[i]
      s == [endpoint |-> t.endpoint, caller |-> t.kind, ok |-> ok]
  IN  IF t.kind = "init" /\ t.keys # {} /\ ok
      THEN /\ \E e \in t.keys :
                tasks' = [tasks EXCEPT ![i] =
                            Merge(t, [endpoint |-> e, keys |-> t.keys \ {e}])]
           /\ OutAll(NoAuthResult, NoDeployResult, NoExtResult, s, NoReadResult)
      ELSE /\ tasks' = [tasks EXCEPT ![i] = Idle]
           /\ IF t.kind = "init"
              THEN OutInit(s, InitAnswer("Services initialized successfully"), TRUE)
              ELSE OutAll(NoAuthResult,
                          IF t.kind = "deploy" THEN DeployAnswer(t, TRUE, "", ok)
                          ELSE NoDeployResult,
                          NoExtResult, s, NoReadResult)

\* scheduleEndpoint(endpoint) has returned ok to task i: deploy answers, a
\* timer callback ends, the bootstrap goes on with its next key or, after
\* the last, the init route sets `initialized` and answers
SchedReturn(i, ok) ==
  LET t == tasks[i]
      s == [endpoint |-> t.endpoint, caller |-> t.kind, ok |-> ok]
  IN  IF t.kind = "init" /\ t.keys # {}
      THEN \* initializeScheduler: the next key of the loop
           /\ \E e \in t.keys :
                tasks' = [tasks EXCEPT ![i] =
                            Merge(t, [endpoint |-> e, keys |-> t.keys \ {e}])]
           /\ OutAll(NoAuthResult, NoDeployResult, NoExtResult, s, NoReadResult)
      ELSE /\ tasks' = [tasks EXCEPT ![i] = Idle]
           /\ IF t.kind = "init"
              THEN \* initializeScheduler and initializeServices return
                   OutInit(s, InitAnswer("Services initialized successfully"), TRUE)
              ELSE OutAll(NoAuthResult,
                          IF t.kind = "deploy" THEN DeployAnswer(t, TRUE, "", ok)
                          ELSE NoDeployResult,
                          NoExtResult, s, NoReadResult)

\* a scheduleEndpoint that marks the record failed when it cannot arm
SchedReadMarksFailure(i) ==
  /\ tasks[i].kind \in {"deploy", "update", "init"} /\ tasks[i].pc = "s_get"
  /\ LET e == tasks[i].endpoint
         m == IF IsEndpointKey(e) THEN MetadataOf(store[e]) ELSE <<>>
     IN  IF \/ ~IsEndpointKey(e)
            \/ ~HasMetadata(store[e])
            \/ \E f \in requiredFields : Missing(m, f)
         THEN /\ SchedReturn(i, FALSE)
              /\ UNCHANGED <<store, timers, scheduledJobs>>
         ELSE \E decryptedKey \in decrypt(m.firecrawlApiKey, secret) :
                IF decryptedKey = "#throw" \/ ~CronParses(m.updateFrequency)
                THEN /\ SchedReturn(i, FALSE)
                     /\ store' = [store EXCEPT ![e].metadata.updateStatus = "failed"]
                     /\ UNCHANGED <<timers, scheduledJobs>>
                ELSE LET cleared == IF e \in DOMAIN scheduledJobs
                                    THEN {tm \in timers : tm.id # scheduledJobs[e]}
                                    ELSE timers
                         others == [r \in DOMAIN scheduledJobs \ {e} |-> scheduledJobs[r]]
                         id == NewTimerId(others)
                         config == [endpoint |-> e, query |-> m.query, schema |-> m.schema,
                                    sources |-> m.sources, firecrawlApiKey |-> decryptedKey,
                                    updateFrequency |-> m.updateFrequency]
                     IN  /\ timers' = cleared \cup
                              {[id |-> id, config |-> config,
                                due |-> nextRun(m.updateFrequency, now)]}
                         /\ scheduledJobs' = Merge(others, [r \in {e} |-> id])
                         /\ SchedReturn(i, TRUE)
                         /\ store' = store
  /\ UNCHANGED <<rate, rateExpiry, now, secret, admitted>>

\* a scheduleEndpoint that arms the new timer beside the one already armed
SchedReadNoClear(i) ==
  /\ tasks[i].kind \in {"deploy", "update", "init"} /\ tasks[i].pc = "s_get"
  /\ LET e == tasks[i].endpoint
         m == IF IsEndpointKey(e) THEN MetadataOf(store[e]) ELSE <<>>
     IN  IF \/ ~IsEndpointKey(e)
            \/ ~HasMetadata(store[e])
            \/ \E f \in requiredFields : Missing(m, f)
         THEN /\ SchedReturn(i, FALSE)
              /\ UNCHANGED <<timers, scheduledJobs>>
         ELSE \E decryptedKey \in decrypt(m.firecrawlApiKey, secret) :
                IF decryptedKey = "#throw" \/ ~CronParses(m.updateFrequency)
                THEN /\ SchedReturn(i, FALSE)
                     /\ UNCHANGED <<timers, scheduledJobs>>
                ELSE LET others == [r \in DOMAIN scheduledJobs \ {e} |-> scheduledJobs[r]]
                         id == NewTimerId(scheduledJobs)
                         config == [endpoint |-> e, query |-> m.query, schema |-> m.schema,
                                    sources |-> m.sources, firecrawlApiKey |-> decryptedKey,
                                    updateFrequency |-> m.updateFrequency]
                     IN  /\ timers' = timers \cup
                              {[id |-> id, config |-> config,
                                due |-> nextRun(m.updateFrequency, now)]}
                         /\ scheduledJobs' = Merge(others, [r \in {e} |-> id])
                         /\ SchedReturn(i, TRUE)
  /\ UNCHANGED <<store, rate, rateExpiry, now, secret, admitted>>

\* scheduleEndpoint from the answer of redis.get to its return
SchedRead(i) ==
  /\ tasks[i].kind \in {"deploy", "update", "init"} /\ tasks[i].pc = "s_get"
  /\ LET e == tasks[i].endpoint
         m == IF IsEndpointKey(e) THEN MetadataOf(store[e]) ELSE <<>>
     IN  IF \/ ~IsEndpointKey(e)
            \/ ~HasMetadata(store[e])
            \/ \E f \in requiredFields : Missing(m, f)
         THEN /\ SchedReturn(i, FALSE)
              /\ UNCHANGED <<timers, scheduledJobs>>
         ELSE \E decryptedKey \in decrypt(m.firecrawlApiKey, secret) :
                IF decryptedKey = "#throw" \/ ~CronParses(m.updateFrequency)
                THEN /\ SchedReturn(i, FALSE)
                     /\ UNCHANGED <<timers, scheduledJobs>>
                ELSE LET cleared == IF e \in DOMAIN scheduledJobs
                                    THEN {tm \in timers : tm.id # scheduledJobs[e]}
                                    ELSE timers
                         others == [r \in DOMAIN scheduledJobs \ {e} |-> scheduledJobs[r]]
                         id == NewTimerId(others)
                         config == [endpoint |-> e, query |-> m.query, schema |-> m.schema,
                                    sources |-> m.sources, firecrawlApiKey |-> decryptedKey,
                                    updateFrequency |-> m.updateFrequency]
                     IN  /\ timers' = cleared \cup
                              {[id |-> id, config |-> config,
                                due |-> nextRun(m.updateFrequency, now)]}
                         /\ scheduledJobs' = Merge(others, [r \in {e} |-> id])
                         /\ SchedReturn(i, TRUE)
  /\ UNCHANGED <<store, rate, rateExpiry, now, secret, admitted>>

\* GET of the init route: answers at once when `initialized` is set; else
\* initializeServices -> initializeScheduler, up to `await redis.keys`
InitStart(i, limit) ==
  /\ FreeSlot(i)
  /\ Cardinality(Busy) < limit
  /\ IF initialized
     THEN /\ tasks' = tasks
          /\ OutInit(NoSchedResult, InitAnswer("Services already initialized"), TRUE)
     ELSE /\ tasks' = [tasks EXCEPT ![i] = [kind |-> "init", pc |-> "i_keys"]]
          /\ NoOut
  /\ UNCHANGED <<store, rate, rateExpiry, now, secret, timers, scheduledJobs, admitted>>

\* initializeScheduler: the answer of redis.keys, in any order; the call of
\* scheduleEndpoint for the first key, up to its `await redis.get`. Without
\* keys the bootstrap returns: the init route sets `initialized` and answers
InitKeys(i) ==
  /\ tasks[i].kind = "init" /\ tasks[i].pc = "i_keys"
  /\ IF DOMAIN store = {}
     THEN /\ tasks' = [tasks EXCEPT ![i] = Idle]
          /\ OutInit(NoSchedResult, InitAnswer("Services initialized successfully"), TRUE)
     ELSE /\ \E e \in DOMAIN store :
               tasks' = [tasks EXCEPT ![i] =
                           [kind |-> "init", pc |-> "s_get", endpoint |-> e,
                            keys |-> DOMAIN store \ {e}]]
          /\ NoOut
  /\ UNCHANGED <<store, rate, rateExpiry, now, secret, timers, scheduledJobs, admitted>>

\* a return after which a timer callback whose extraction failed ends
ExtReturnStopOnFailure(i, ok, data, error, post) ==
  LET x == [endpoint |-> tasks[i].endpoint, caller |-> tasks[i].kind,
            success |-> ok, data |-> data, error |-> error,
            pre |-> tasks[i].pre, post |-> post, calledAt |-> tasks[i].calledAt,
            time |-> now]
  IN  IF ~ok
      THEN /\ Out(NoAuthResult,
                  IF tasks[i].kind = "deploy"
                  THEN DeployAnswer(tasks[i], FALSE, error, FALSE) ELSE NoDeployResult,
                  x)
           /\ tasks' = [tasks EXCEPT ![i] = Idle]
      ELSE /\ Out(NoAuthResult, NoDeployResult, x)
           /\ tasks' = [tasks EXCEPT ![i].pc = "s_get"]

\* a return after which a deploy whose first extraction failed answers 500
ExtReturnAbortDeploy(i, ok, data, error, post) ==
  LET x == [endpoint |-> tasks[i].endpoint, caller |-> tasks[i].kind,
            success |-> ok, data |-> data, error |-> error,
            pre |-> tasks[i].pre, post |-> post, calledAt |-> tasks[i].calledAt,
            time |-> now]
  IN  IF tasks[i].kind = "deploy" /\ ~ok
      THEN /\ Out(NoAuthResult, DeployError("deploy", tasks[i].route, 500, error), x)
           /\ tasks' = [tasks EXCEPT ![i] = Idle]
      ELSE /\ Out(NoAuthResult, NoDeployResult, x)
           /\ tasks' = [tasks EXCEPT ![i].pc = "s_get"]

\* extractAndUpdateData has returned to task i: deploy answers at once when
\* the extraction failed; otherwise deploy, and a timer callback whatever the
\* outcome, go on to scheduleEndpoint, up to its `await redis.get`. pre and
\* post (history) are the stored value at the call and at the return.
ExtReturn(i, ok, data, error, post) ==
  LET x == [endpoint |-> tasks[i].endpoint, caller |-> tasks[i].kind,
            success |-> ok, data |-> data, error |-> error,
            pre |-> tasks[i].pre, post |-> post, calledAt |-> tasks[i].calledAt,
            time |-> now]
  IN  IF tasks[i].kind = "deploy" /\ ~ok
      THEN /\ Out(NoAuthResult, DeployAnswer(tasks[i], FALSE, error, FALSE), x)
           /\ tasks' = [tasks EXCEPT ![i] = Idle]
      ELSE /\ Out(NoAuthResult, NoDeployResult, x)
           /\ tasks' = [tasks EXCEPT ![i].pc = "s_get"]

\* the answer of firecrawl.extract, up to the next await: redis.get of the
\* try block, or of the catch block when the answer is an error
ExtCall(i) ==
  /\ InExtract(i, "x_call")
  /\ \E out \in ExtractOutcomes :
       tasks' = [tasks EXCEPT ![i] =
         CASE out.kind = "data" ->
                Merge(@, [pc |-> "x_get", payload |-> out.data])
           [] out.kind = "nodata" ->
                Merge(@, [pc |-> "x_fail_get",
                          error |-> "Invalid response format from Firecrawl API"])
           [] OTHER ->
                Merge(@, [pc |-> "x_fail_get", error |-> out.error])]
  /\ NoOut
  /\ UNCHANGED <<store, rate, rateExpiry, now, secret, timers, scheduledJobs, admitted>>

\* try block: the answer of redis.get; builds updatedData, up to `await redis.set`
ExtRead(i) ==
  /\ InExtract(i, "x_get")
  /\ LET e == tasks[i].endpoint
     IN  tasks' = [tasks EXCEPT ![i] =
           IF IsEndpointKey(e)
           THEN Merge(@, [pc |-> "x_set",
                          updatedData |-> SuccessUpdate(store[e], @.payload, now)])
           ELSE Merge(@, [pc |-> "x_fail_get", error |-> "Endpoint data not found"])]
  /\ NoOut
  /\ UNCHANGED <<store, rate, rateExpiry, now, secret, timers, scheduledJobs, admitted>>

\* try block: redis.set, then return { success: true, data }
ExtWrite(i) ==
  /\ InExtract(i, "x_set")
  /\ store' = Merge(store, [r \in {tasks[i].endpoint} |-> tasks[i].updatedData])
  /\ ExtReturn(i, TRUE, tasks[i].payload, "", <<tasks[i].updatedData>>)
  /\ UNCHANGED <<rate, rateExpiry, now, secret, timers, scheduledJobs, admitted>>

\* catch block: the answer of redis.get; with a record, builds updatedData up
\* to `await redis.set`; without one, return { success: false, error }
ExtFailRead(i) ==
  /\ InExtract(i, "x_fail_get")
  /\ LET e == tasks[i].endpoint
     IN  IF IsEndpointKey(e)
         THEN /\ tasks' = [tasks EXCEPT ![i] =
                   Merge(@, [pc |-> "x_fail_set",
                             updatedData |-> FailureUpdate(store[e], @.error, now)])]
              /\ NoOut
         ELSE ExtReturn(i, FALSE, EmptyData, tasks[i].error, <<>>)
  /\ UNCHANGED <<store, rate, rateExpiry, now, secret, timers, scheduledJobs, admitted>>

\* a catch block that writes only when the record is still the one it read
ExtFailWriteIfUnchanged(i) ==
  /\ InExtract(i, "x_fail_set")
  /\ LET e == tasks[i].endpoint
         same == IsEndpointKey(e)
                   /\ FailureUpdate(store[e], tasks[i].error, now) = tasks[i].updatedData
     IN  /\ store' = IF same
                     THEN Merge(store, [r \in {e} |-> tasks[i].updatedData])
                     ELSE store
         /\ ExtReturn(i, FALSE, EmptyData, tasks[i].error,
                      IF same THEN <<tasks[i].updatedData>> ELSE <<>>)
  /\ UNCHANGED <<rate, rateExpiry, now, secret, timers, scheduledJobs, admitted>>

\* catch block: redis.set, then return { success: false, error }
ExtFailWrite(i) ==
  /\ InExtract(i, "x_fail_set")
  /\ store' = Merge(store, [r \in {tasks[i].endpoint} |-> tasks[i].updatedData])
  /\ ExtReturn(i, FALSE, EmptyData, tasks[i].error, <<tasks[i].updatedData>>)
  /\ UNCHANGED <<rate, rateExpiry, now, secret, timers, scheduledJobs, admitted>>

\* a timer runs out: runUpdate(config) up to the first await of
\* extractAndUpdateData
TimerFire(i, limit) ==
  /\ FreeSlot(i)
  /\ Cardinality(Busy) < limit
  /\ \E tm \in timers :
       /\ now >= tm.due
       /\ timers' = timers \ {tm}
       /\ LET c == tm.config
          IN  tasks' = [tasks EXCEPT ![i] =
                ExtEnter([kind |-> "update"], c.endpoint, c.query, c.schema,
                         c.sources, c.firecrawlApiKey,
                         IF IsEndpointKey(c.endpoint) THEN <<store[c.endpoint]>> ELSE <<>>)]
  /\ NoOut
  /\ UNCHANGED <<store, rate, rateExpiry, now, secret, scheduledJobs, admitted>>

\* ------------------------------------------------------------------ deploy
S1 == [type |-> "object", properties |-> {"name"}]
UserData == [keys |-> {"name"}, rev |-> 0]
GoodBody(route) ==
  [key |-> "k", route |-> route, data |-> UserData, query |-> "q1", schema |-> S1,
   sources |-> <<"u1">>, firecrawlApiKey |-> "fc1", updateFrequency |-> "*/1 * * * *"]

\* request bodies of POST /api/deploy
DeployBodies ==
  {GoodBody(r) : r \in RawRoutes}
  \cup {[GoodBody(<<"a">>) EXCEPT !.sources = <<>>],
        [GoodBody(<<"a">>) EXCEPT !.updateFrequency = "61 * * * *"],
        [GoodBody(<<"a">>) EXCEPT !.updateFrequency = "every minute"],
        [GoodBody(<<"a">>) EXCEPT !.firecrawlApiKey = ""]}

\* deployRequestSchema.parse(body) does not throw
deployRequestSchema(body) ==
  /\ body.key # ""
  /\ body.route # <<>>
  /\ {"type", "properties"} \subseteq DOMAIN body.schema
  /\ body.firecrawlApiKey # ""
  /\ CronMatchesRegex(body.updateFrequency)

\* the record the README.md route stores first (toISOString of the time is
\* modelled by the time: the two are in one-to-one correspondence)
initialData(body, apiKey, encryptedFirecrawlKey, t) ==
  [data |-> EmptyData,
   metadata |-> [query |-> body.query, schema |-> body.schema, sources |-> body.sources,
                 updateFrequency |-> body.updateFrequency,
                 firecrawlApiKey |-> encryptedFirecrawlKey, apiKey |-> apiKey,
                 lastUpdated |-> t, createdAt |-> t, lastUpdateAttempt |-> Null,
                 lastSuccessfulUpdate |-> Null, updateStatus |-> "initializing"]]

\* the record src/app/api/deploy/route.ts stores
storageData(body, apiKey, encryptedFirecrawlKey, t) ==
  [data |-> body.data,
   metadata |-> Merge([query |-> body.query, schema |-> body.schema,
                       sources |-> body.sources,
                       firecrawlApiKey |-> PlainText(body.firecrawlApiKey),
                       updateFrequency |-> body.updateFrequency],
                      [firecrawlApiKey |-> encryptedFirecrawlKey, apiKey |-> apiKey,
                       lastUpdated |-> t, createdAt |-> t, lastUpdateAttempt |-> Null,
                       lastSuccessfulUpdate |-> Null, updateStatus |-> "pending"])]

\* POST /api/deploy (the route file of handlers) with a body of bodies: parse
\* the body, clean the route, up to `await redis.get`
DeployStartWith(i, limit, bodies, handlers) ==
  /\ FreeSlot(i)
  /\ Cardinality(Busy) < limit
  /\ \E body \in bodies, handler \in handlers :
       IF deployRequestSchema(body)
       THEN /\ tasks' = [tasks EXCEPT ![i] =
                 [kind |-> handler, pc |-> "d_get", body |-> body,
                  route |-> cleanRoute(body.route)]]
            /\ NoOut
       ELSE /\ Out(NoAuthResult, DeployError(handler, <<>>, 400, "Validation error"),
                   NoExtResult)
            /\ tasks' = tasks
  /\ UNCHANGED <<store, rate, rateExpiry, now, secret, timers, scheduledJobs, admitted>>

DeployStartFrom(i, limit, bodies) ==
  DeployStartWith(i, limit, bodies, {"deploy", "srcdeploy"})

DeployStart(i, limit) == DeployStartFrom(i, limit, DeployBodies)

\* a deploy that mints a key into the record it finds before it answers 409
DeployCheckLate(i) ==
  /\ tasks[i].kind \in {"deploy", "srcdeploy"} /\ tasks[i].pc = "d_get"
  /\ LET t == tasks[i]
     IN  IF IsEndpointKey(t.route)
         THEN /\ Out(NoAuthResult,
                     DeployError(t.kind, t.route, 409, "Route already exists"),
                     NoExtResult)
              /\ tasks' = [tasks EXCEPT ![i] = Idle]
              /\ \E apiKey \in ApiKeys :
                   store' = [store EXCEPT ![t.route].metadata.apiKey = apiKey]
         ELSE /\ \E apiKey \in ApiKeys, enc \in encrypt(t.body.firecrawlApiKey, secret) :
                   tasks' = [tasks EXCEPT ![i] =
                     Merge(t, [pc |-> "d_set", apiKey |-> apiKey,
                               record |-> IF t.kind = "deploy"
                                          THEN initialData(t.body, apiKey, enc, now)
                                          ELSE storageData(t.body, apiKey, enc, now)])]
              /\ NoOut
              /\ store' = store
  /\ UNCHANGED <<rate, rateExpiry, now, secret, timers, scheduledJobs, admitted>>

\* the answer of redis.get: 409 when the route exists; otherwise mint the
\* API key, encrypt the scraping key, build the record, up to `await redis.set`
DeployCheck(i) ==
  /\ tasks[i].kind \in {"deploy", "srcdeploy"} /\ tasks[i].pc = "d_get"
  /\ LET t == tasks[i]
     IN  IF IsEndpointKey(t.route)
         THEN /\ Out(NoAuthResult,
                     DeployError(t.kind, t.route, 409, "Route already exists"),
                     NoExtResult)
              /\ tasks' = [tasks EXCEPT ![i] = Idle]
         ELSE /\ \E apiKey \in ApiKeys, enc \in encrypt(t.body.firecrawlApiKey, secret) :
                   tasks' = [tasks EXCEPT ![i] =
                     Merge(t, [pc |-> "d_set", apiKey |-> apiKey,
                               record |-> IF t.kind = "deploy"
                                          THEN initialData(t.body, apiKey, enc, now)
                                          ELSE storageData(t.body, apiKey, enc, now)])]
              /\ NoOut
  /\ UNCHANGED <<store, rate, rateExpiry, now, secret, timers, scheduledJobs, admitted>>

\* README.md route: redis.set of the initial record, then the call of
\* extractAndUpdateData with the plaintext scraping key, up to its first await
DeployStore(i) ==
  /\ tasks[i].kind = "deploy" /\ tasks[i].pc = "d_set"
  /\ LET t == tasks[i]
     IN  /\ store' = Merge(store, [r \in {t.route} |-> t.record])
         /\ tasks' = [tasks EXCEPT ![i] =
              ExtEnter(t, t.route, t.body.query, t.body.schema, t.body.sources,
                       t.body.firecrawlApiKey, <<t.record>>)]
  /\ NoOut
  /\ UNCHANGED <<rate, rateExpiry, now, secret, timers, scheduledJobs, admitted>>

\* src/app/api/deploy/route.ts: redis.set of the record, up to the
\* verifying `await redis.get`
SrcDeployStore(i) ==
  /\ tasks[i].kind = "srcdeploy" /\ tasks[i].pc = "d_set"
  /\ store' = Merge(store, [r \in {tasks[i].route} |-> tasks[i].record])
  /\ tasks' = [tasks EXCEPT ![i].pc = "d_verify"]
  /\ NoOut
  /\ UNCHANGED <<rate, rateExpiry, now, secret, timers, scheduledJobs, admitted>>

\* src/app/api/deploy/route.ts: the verifying read is only logged; answer
SrcDeployVerify(i) ==
  /\ tasks[i].kind = "srcdeploy" /\ tasks[i].pc = "d_verify"
  /\ Out(NoAuthResult,
         [handler |-> "srcdeploy", route |-> tasks[i].route, status |-> 200,
          success |-> TRUE, apiKey |-> tasks[i].apiKey, error |-> "",
          extractionStatus |-> "", extractionError |-> "", updateScheduled |-> FALSE,
          scheduled |-> FALSE],
         NoExtResult)
  /\ tasks' = [tasks EXCEPT ![i] = Idle]
  /\ UNCHANGED <<store, rate, rateExpiry, now, secret, timers, scheduledJobs, admitted>>

\* ----------------------------------------------------------- specification
Init ==
  /\ store = <<>>
  /\ rate = [k \in ApiKeys |-> {}]
  /\ rateExpiry = [k \in ApiKeys |-> Never]
  /\ now = 0
  /\ secret \in Secrets
  /\ tasks = [i \in Slots |-> Idle]
  /\ timers = {}
  /\ scheduledJobs = <<>>
  /\ authResult = NoAuthResult
  /\ deployResult = NoDeployResult
  /\ extResult = NoExtResult
  /\ admitted = [k \in ApiKeys |-> [u \in Times |-> 0]]
  /\ schedResult = NoSchedResult
  /\ readResult = NoReadResult
  /\ initialized = FALSE
  /\ initResult = NoInitResult
  /\ proxyResult = NoProxyResult

\* a handler in flight resumes at the await it is waiting at
GateStep(i, track) ==
  \/ ValidateRead(i) \/ ValidateZrange(i) \/ ValidateZadd(i)
  \/ ValidateZrem(i) \/ ValidateExpire(i, track)

Step(i) ==
  \/ GateStep(i, FALSE)
  \/ DeployCheck(i) \/ DeployStore(i) \/ SrcDeployStore(i) \/ SrcDeployVerify(i)
  \/ ExtCall(i) \/ ExtRead(i) \/ ExtWrite(i) \/ ExtFailRead(i) \/ ExtFailWrite(i)
  \/ SchedRead(i)

\* a request arrives or a timer runs out while fewer than limit handlers
\* are in flight
Arrive(i, limit) ==
  \/ ValidateStart(i, limit) \/ DeployStart(i, limit) \/ TimerFire(i, limit)

\* The whole program from an empty store, requests handled one after the
\* other.
Next == Tick(MaxTime) \/ \E i \in Slots : Step(i) \/ Arrive(i, 1)

Spec == Init /\ [][Next]_vars

\* ---------------------------------------------------- the auth gate alone
\* What the store can hold under OtherRoute: nothing, a string that is not
\* JSON, an object without metadata, a record without apiKey, the record of
\* another endpoint.
DeployedRecord(route, apiKey) ==
  storageData(GoodBody(route), apiKey, CipherText("iv1", <<"sha256", "s1">>, "fc1"), 0)

OtherValues ==
  {NotJson, [data |-> EmptyData],
   [data |-> EmptyData, metadata |-> [query |-> "q1", updateStatus |-> "success"]],
   DeployedRecord(OtherRoute, "sk_2")}

GateInit(stores) ==
  /\ store \in stores
  /\ rate = [k \in ApiKeys |-> {}]
  /\ rateExpiry = [k \in ApiKeys |-> Never]
  /\ now = 0
  /\ secret = "s1"
  /\ tasks = [i \in Slots |-> Idle]
  /\ timers = {}
  /\ scheduledJobs = <<>>
  /\ authResult = NoAuthResult
  /\ deployResult = NoDeployResult
  /\ extResult = NoExtResult
  /\ admitted = [k \in ApiKeys |-> [u \in Times |-> 0]]
  /\ schedResult = NoSchedResult
  /\ readResult = NoReadResult
  /\ initialized = FALSE
  /\ initResult = NoInitResult
  /\ proxyResult = NoProxyResult

\* The store after a deploy of route a that minted sk_1, with any of the
\* above under OtherRoute.
InitGate ==
  GateInit({[r \in {<<"a">>} |-> DeployedRecord(<<"a">>, "sk_1")]}
           \cup {Merge([r \in {<<"a">>} |-> DeployedRecord(<<"a">>, "sk_1")],
                       [r \in {OtherRoute} |-> v]) : v \in OtherValues})

\* results requests handled one after the other
GateNext ==
  Tick(MaxTime) \/ \E i \in Slots : GateStep(i, FALSE) \/ ValidateStart(i, 1)

SpecGate == InitGate /\ [][GateNext]_vars

\* ------------------------------------------------- the rate limiter's count
\* The store after a deploy of route a that minted sk_1; the admissions are
\* entered in the history.
InitRate == GateInit({[r \in {<<"a">>} |-> DeployedRecord(<<"a">>, "sk_1")]})

\* results requests handled one after the other
RateNext ==
  Tick(GateTime) \/ \E i \in Slots : GateStep(i, TRUE) \/ ValidateStart(i, 1)

SpecRate == InitRate /\ [][RateNext]_vars

\* results requests whose handlers overlap
RateConcNext ==
  Tick(ConcTime) \/ \E i \in Slots : GateStep(i, TRUE) \/ ValidateStart(i, MaxTasks)

SpecRateConc == InitRate /\ [][RateConcNext]_vars

\* ------------------------------------- deploy, extraction and the scheduler
LifeStep(i) ==
  \/ DeployCheck(i) \/ DeployStore(i) \/ SrcDeployStore(i) \/ SrcDeployVerify(i)
  \/ ExtCall(i) \/ ExtRead(i) \/ ExtWrite(i) \/ ExtFailRead(i) \/ ExtFailWrite(i)
  \/ SchedRead(i) \/ InitKeys(i)

\* a deploy request arrives, a timer runs out or the bootstrap is called
\* while fewer than limit handlers are in flight
LifeArrive(i, limit) ==
  \/ DeployStart(i, limit) \/ TimerFire(i, limit) \/ InitStart(i, limit)

\* handlers run one after the other
LifeNext == Tick(MaxTime) \/ \E i \in Slots : LifeStep(i) \/ LifeArrive(i, 1)

SpecLife == Init /\ [][LifeNext]_vars

\* ------------------------------------------------------- extract proxy
\* a field the request body does not carry
Absent == [missing |-> TRUE]

\* schemas of requests: properties is the set of the property keys
Schemas ==
  {S1,
   [type |-> "object", properties |-> {"name"}, required |-> {"name"}],
   [type |-> "object", properties |-> {"name"}, required |-> {}],
   [type |-> "string", properties |-> {"name"}, required |-> {"name"}],
   [type |-> "object", properties |-> {}],
   [type |-> "object"]}

\* the urls of a request: a list, or a string
UrlList(items) == [array |-> TRUE, items |-> items]
UrlString == [array |-> FALSE, items |-> <<"u1">>]

GoodProxyBody ==
  [urls |-> UrlList(<<"u1">>), prompt |-> "q1", schema |-> S1, firecrawlApiKey |-> "fc1"]

\* request bodies of POST /api/extract
ProxyBodies ==
  {[GoodProxyBody EXCEPT !.urls = u] : u \in {UrlList(<<"u1">>), UrlList(<<>>), UrlString, Absent}}
  \cup {[GoodProxyBody EXCEPT !.schema = sc] : sc \in Schemas \cup {Absent}}
  \cup {[GoodProxyBody EXCEPT !.prompt = ""], [GoodProxyBody EXCEPT !.firecrawlApiKey = ""]}

\* request bodies of POST /api/deploy with the schemas of Schemas
SchemaBodies == {[GoodBody(<<"a">>) EXCEPT !.schema = sc] : sc \in Schemas}

isValidJsonSchema(schema) ==
  /\ "type" \in DOMAIN schema /\ schema.type = "object"
  /\ "properties" \in DOMAIN schema
  /\ schema.properties # {}

\* the 400 answers of the proxy: the message, "" when the body passes
ProxyValidationError(body) ==
  IF body.urls = Absent \/ ~body.urls.array \/ body.prompt = "" \/ body.schema = Absent
  THEN "Invalid request parameters: missing urls, prompt, or schema"
  ELSE IF body.firecrawlApiKey = "" THEN "Firecrawl API key is required"
  ELSE IF ~isValidJsonSchema(body.schema)
  THEN "Invalid JSON schema format. Schema must be an object with \"type\" and \"properties\"."
  ELSE ""

ProxyAnswer(status, data, error) ==
  [status |-> status, success |-> status = 200, data |-> data, error |-> error]

\* POST /api/extract: the checks of the body, up to `await firecrawl.extract`
ProxyStart(i, limit) ==
  /\ FreeSlot(i)
  /\ Cardinality(Busy) < limit
  /\ \E body \in ProxyBodies :
       LET err == ProxyValidationError(body)
       IN  IF err # ""
           THEN /\ tasks' = tasks
                /\ OutProxy(ProxyAnswer(400, EmptyData, err))
           ELSE /\ tasks' = [tasks EXCEPT ![i] =
                      [kind |-> "proxy", pc |-> "p_call", urls |-> body.urls.items,
                       schema |-> body.schema, key |-> body.firecrawlApiKey,
                       sent |-> formattedSchema(body.schema)]]
                /\ NoOut
  /\ UNCHANGED <<store, rate, rateExpiry, now, secret, timers, scheduledJobs, admitted>>

\* the answer of firecrawl.extract and the response of the proxy
ProxyCall(i) ==
  /\ tasks[i].kind = "proxy" /\ tasks[i].pc = "p_call"
  /\ \E out \in ExtractOutcomes :
       OutProxy(CASE out.kind = "data" -> ProxyAnswer(200, out.data, "")
                  [] out.kind = "nodata" ->
                       ProxyAnswer(500, EmptyData, "Invalid response format from Firecrawl API")
                  [] OTHER -> ProxyAnswer(500, EmptyData, out.error))
  /\ tasks' = [tasks EXCEPT ![i] = Idle]
  /\ UNCHANGED <<store, rate, rateExpiry, now, secret, timers, scheduledJobs, admitted>>

\* deploys with any schema, their first extraction and proxy requests, one
\* handler after the other
ExtractNext ==
  \E i \in Slots :
    \/ DeployStartFrom(i, 1, SchemaBodies) \/ DeployCheck(i) \/ DeployStore(i)
    \/ SrcDeployStore(i) \/ SrcDeployVerify(i)
    \/ ExtCall(i) \/ ExtRead(i) \/ ExtWrite(i) \/ ExtFailRead(i) \/ ExtFailWrite(i)
    \/ SchedRead(i)
    \/ ProxyStart(i, 1) \/ ProxyCall(i)

SpecExtract == Init /\ [][ExtractNext]_vars

\* ------------------------------------------- overlapping scheduler calls
\* The deploy of GoodBody(<<"a">>) at the return of its first extraction,
\* which wrote the payload at time 0: about to call scheduleEndpoint.
FirstRecord ==
  initialData(GoodBody(<<"a">>), "sk_1", CipherText("iv1", <<"sha256", "s1">>, "fc1"), 0)

FirstPayload == [keys |-> {"name"}, rev |-> 1]

DeployAtSchedule ==
  Merge([kind |-> "deploy", body |-> GoodBody(<<"a">>), route |-> <<"a">>,
         apiKey |-> "sk_1", record |-> FirstRecord],
        [pc |-> "s_get", endpoint |-> <<"a">>, query |-> "q1", schema |-> S1,
         sources |-> <<"u1">>, key |-> "fc1", error |-> "", pre |-> <<FirstRecord>>,
         calledAt |-> 0, sent |-> formattedSchema(S1), payload |-> FirstPayload,
         updatedData |-> SuccessUpdate(FirstRecord, FirstPayload, 0)])

InitSched ==
  /\ store = [r \in {<<"a">>} |-> SuccessUpdate(FirstRecord, FirstPayload, 0)]
  /\ rate = [k \in ApiKeys |-> {}]
  /\ rateExpiry = [k \in ApiKeys |-> Never]
  /\ now = 0
  /\ secret = "s1"
  /\ tasks = [i \in Slots |-> IF i = 1 THEN DeployAtSchedule ELSE Idle]
  /\ timers = {}
  /\ scheduledJobs = <<>>
  /\ authResult = NoAuthResult
  /\ deployResult = NoDeployResult
  /\ extResult = NoExtResult
  /\ admitted = [k \in ApiKeys |-> [u \in Times |-> 0]]
  /\ schedResult = NoSchedResult
  /\ readResult = NoReadResult
  /\ initialized = FALSE
  /\ initResult = NoInitResult
  /\ proxyResult = NoProxyResult

\* the deploy's scheduleEndpoint call, bootstraps and timer callbacks, overlapping
SchedConcNext ==
  \/ Tick(MaxTime)
  \/ \E i \in Slots :
       \/ SchedRead(i) \/ InitKeys(i)
       \/ ExtCall(i) \/ ExtRead(i) \/ ExtWrite(i) \/ ExtFailRead(i) \/ ExtFailWrite(i)
       \/ TimerFire(i, MaxTasks) \/ InitStart(i, MaxTasks)

SpecSchedConc == InitSched /\ [][SchedConcNext]_vars

\* ---------------------------------------------------------- reads of results
\* The deploy of GoodBody(<<"a">>) after it wrote the initial record at time
\* 0: at the external call of its first extraction.
DeployAtExtract ==
  Merge([kind |-> "deploy", body |-> GoodBody(<<"a">>), route |-> <<"a">>,
         apiKey |-> "sk_1", record |-> FirstRecord],
        [pc |-> "x_call", endpoint |-> <<"a">>, query |-> "q1", schema |-> S1,
         sources |-> <<"u1">>, key |-> "fc1", error |-> "", pre |-> <<FirstRecord>>,
         calledAt |-> 0, sent |-> formattedSchema(S1)])

InitReadConc ==
  /\ store = [r \in {<<"a">>} |-> FirstRecord]
  /\ rate = [k \in ApiKeys |-> {}]
  /\ rateExpiry = [k \in ApiKeys |-> Never]
  /\ now = 0
  /\ secret = "s1"
  /\ tasks = [i \in Slots |-> IF i = 1 THEN DeployAtExtract ELSE Idle]
  /\ timers = {}
  /\ scheduledJobs = <<>>
  /\ authResult = NoAuthResult
  /\ deployResult = NoDeployResult
  /\ extResult = NoExtResult
  /\ admitted = [k \in ApiKeys |-> [u \in Times |-> 0]]
  /\ schedResult = NoSchedResult
  /\ readResult = NoReadResult
  /\ initialized = FALSE
  /\ initResult = NoInitResult
  /\ proxyResult = NoProxyResult

\* the results route after validateApiKey
ReadStep(i) == ReadGet(i) \/ WaitGet(i) \/ ReadRefresh(i)

\* reads of the results overlapping the first extraction of the deploy
ReadConcNext ==
  \/ Tick(ConcTime)
  \/ \E i \in Slots :
       \/ GateStep(i, FALSE) \/ ReadStep(i)
       \/ ExtCall(i) \/ ExtRead(i) \/ ExtWrite(i) \/ ExtFailRead(i) \/ ExtFailWrite(i)
       \/ SchedRead(i)
       \/ ReadStart(i, MaxTasks)

SpecReadConc == InitReadConc /\ [][ReadConcNext]_vars

\* reads of the results after the deploy's first extraction wrote
\* FirstPayload at time 0, one handler at a time; timers fire and update
ReadNext ==
  \/ Tick(MaxTime)
  \/ \E i \in Slots :
       \/ GateStep(i, FALSE) \/ ReadGet(i)
       \/ ExtCall(i) \/ ExtRead(i) \/ ExtWrite(i) \/ ExtFailRead(i) \/ ExtFailWrite(i)
       \/ SchedRead(i)
       \/ ReadStart(i, 1) \/ TimerFire(i, 1)

SpecRead == InitSched /\ [][ReadNext]_vars

\* ================================================================ properties
\* the stored value under route r is a record with an apiKey
HasApiKey(r) ==
  r \in DOMAIN store /\ HasMetadata(store[r]) /\ "apiKey" \in DOMAIN store[r].metadata

\* history: the requests with token k admitted at the times lo..hi
RECURSIVE SumAdmitted(_, _, _)
SumAdmitted(k, lo, hi) ==
  IF hi < lo THEN 0
  ELSE (IF hi \in Times THEN admitted[k][hi] ELSE 0) + SumAdmitted(k, lo, hi - 1)

\* history: the requests with token k admitted in the window of
\* RATE_LIMIT_WINDOW ticks that ends at u
AdmittedInWindow(k, u) == SumAdmitted(k, u - RATE_LIMIT_WINDOW + 1, u)

\* the entries of rate_limit:{k} that a zrange at time t counts
WindowEntries(k, t) ==
  zrange(LiveSet(k, now), t - RATE_LIMIT_WINDOW, t)

\* ------------------------------------------------------------------------ C1
\* C1: validateApiKey answers isAuthenticated = true, with the record's
\* metadata, only for an endpoint that has a stored record with an apiKey and
\* a bearer token equal to that apiKey; a different token, the token of
\* another endpoint or a record without apiKey never authenticates.
C1_AuthenticatedOnlyWithStoredKey ==
  authResult.isAuthenticated =>
    /\ authResult.token # NoToken
    /\ HasApiKey(authResult.endpoint)
    /\ store[authResult.endpoint].metadata.apiKey = authResult.token
    /\ authResult.metadata = store[authResult.endpoint].metadata

\* a request is authenticated while two endpoints hold different apiKeys
C1_Witness ==
  /\ authResult.isAuthenticated
  /\ authResult.endpoint = OtherRoute
  /\ \E r \in DOMAIN store :
       HasApiKey(r) /\ store[r].metadata.apiKey # authResult.token

\* ------------------------------------------------------------------------ C2
\* C2: with requests handled one after the other, no token has more than
\* RATE_LIMIT_MAX requests admitted in any window of RATE_LIMIT_WINDOW ticks,
\* requests with one and the same timestamp included.
C2_AtMostMaxPerWindow ==
  \A k \in ApiKeys, u \in Times : AdmittedInWindow(k, u) <= RATE_LIMIT_MAX

\* ------------------------------------------------------------------------ C3
\* C3: with overlapping requests whose timestamps all differ, still no token
\* has more than RATE_LIMIT_MAX requests admitted in any window of
\* RATE_LIMIT_WINDOW ticks.
C3_AtMostMaxPerWindowConcurrent ==
  (\A k \in ApiKeys, u \in Times : admitted[k][u] <= 1)
    => \A k \in ApiKeys, u \in Times : AdmittedInWindow(k, u) <= RATE_LIMIT_MAX

\* ------------------------------------------------------------------------ C4
\* C4: a request with the valid token is rejected with 429 only if a request
\* with that token was admitted in the window that ends at its arrival; once
\* the window has passed without an admission the token is admitted again.
C4_RejectedOnlyAfterRecentAdmission ==
  authResult.statusCode = 429 => authResult.recent > 0

\* a token whose window was full earlier is admitted after a window without
\* admissions
C4_Witness ==
  /\ authResult.isAuthenticated
  /\ authResult.recent = 0
  /\ \E u \in Times :
       /\ u < authResult.currentTime
       /\ AdmittedInWindow(authResult.token, u) >= RATE_LIMIT_MAX

\* ------------------------------------------------------------------------ C5
\* C5: the answer of validateApiKey is decided in a fixed order: 401 without
\* a bearer token, else 404 without a stored value, else 500 for a stored
\* value that does not parse, else 401 for a token that is not the record's
\* apiKey, else 429 for a full window, else authenticated.
C5_FailurePrecedence ==
  LET a == authResult
      e == a.endpoint
  IN  a.statusCode # 0 =>
        IF a.token = NoToken THEN a.statusCode = 401
        ELSE IF e \notin DOMAIN store THEN a.statusCode = 404
        ELSE IF store[e] = NotJson THEN a.statusCode = 500
        ELSE IF ~(HasApiKey(e) /\ store[e].metadata.apiKey = a.token)
             THEN a.statusCode = 401
        ELSE \/ /\ a.statusCode = 429
                /\ Cardinality(WindowEntries(a.token, a.currentTime)) >= RATE_LIMIT_MAX
             \/ /\ a.statusCode = 200
                /\ a.isAuthenticated
                /\ Cardinality(WindowEntries(a.token, a.currentTime)) <= RATE_LIMIT_MAX

\* a request without bearer token for an endpoint that does not exist gets
\* 401, not 404
C5_Witness ==
  /\ authResult.statusCode = 401
  /\ authResult.token = NoToken
  /\ authResult.endpoint \notin DOMAIN store

C7_ApiKeySetOnce ==
  [][/\ \A r \in DOMAIN store :
          /\ r \in DOMAIN store'
          /\ HasMetadata(store'[r])
          /\ "apiKey" \in DOMAIN store'[r].metadata
          /\ store'[r].metadata.apiKey = store[r].metadata.apiKey
     /\ \A r \in DOMAIN store' \ DOMAIN store :
          \E i \in Slots :
            /\ tasks[i].kind \in {"deploy", "srcdeploy"}
            /\ tasks[i].pc = "d_set"
            /\ tasks[i].route = r
            /\ store'[r].metadata.apiKey = tasks[i].apiKey
     /\ deployResult'.status = 200 =>
          /\ deployResult'.route \in DOMAIN store'
          /\ store'[deployResult'.route].metadata.apiKey = deployResult'.apiKey]_vars

\* a scheduled extraction has failed on a record that an earlier extraction
\* had filled
C7_Witness ==
  /\ extResult.caller = "update"
  /\ ~extResult.success
  /\ extResult.post # <<>>
  /\ extResult.post[1].metadata.apiKey \in ApiKeys
  /\ "lastSuccessfulUpdate" \in DOMAIN extResult.post[1].metadata
  /\ extResult.post[1].metadata.lastSuccessfulUpdate # Null

\* ------------------------------------------------------------------------ C8
\* C8: every record in the store holds metadata.firecrawlApiKey in the form
\* iv:ciphertext, never as the plaintext of the request.
C8_FirecrawlKeyEncrypted ==
  \A r \in DOMAIN store :
    /\ HasMetadata(store[r])
    /\ "firecrawlApiKey" \in DOMAIN store[r].metadata
    /\ store[r].metadata.firecrawlApiKey.form = "iv:ct"
    /\ store[r].metadata.firecrawlApiKey # PlainText(store[r].metadata.firecrawlApiKey.text)

\* the extraction worker, called by deploy with the plaintext key, has
\* written the record
C8_Witness ==
  /\ extResult.caller = "deploy"
  /\ extResult.success
  /\ extResult.endpoint \in DOMAIN store
  /\ store[extResult.endpoint] = extResult.post[1]
  /\ store[extResult.endpoint].metadata.firecrawlApiKey.text = "fc1"

\* ------------------------------------------------------------------------ C9
\* C9: after a successful extraction the record holds the payload of the
\* extraction service as data, updateStatus success, and one time of the
\* call's duration as lastUpdated, lastUpdateAttempt and
\* lastSuccessfulUpdate; every other metadata field is as it was at the call.
C9_SuccessUpdatesRecord ==
  extResult.success =>
    /\ extResult.pre # <<>>
    /\ extResult.post # <<>>
    /\ LET pre == extResult.pre[1]
           post == extResult.post[1]
           stamps == {"lastUpdated", "lastUpdateAttempt", "lastSuccessfulUpdate"}
       IN  /\ store[extResult.endpoint] = post
           /\ post.data = extResult.data
           /\ extResult.data \in Payloads
           /\ DOMAIN post.metadata = DOMAIN pre.metadata \cup stamps \cup {"updateStatus"}
           /\ post.metadata.updateStatus = "success"
           /\ \A f \in stamps : post.metadata[f] = post.metadata.lastUpdated
           /\ extResult.calledAt <= post.metadata.lastUpdated
           /\ post.metadata.lastUpdated <= extResult.time
           /\ \A f \in DOMAIN pre.metadata \ (stamps \cup {"updateStatus"}) :
                post.metadata[f] = pre.metadata[f]

\* a scheduled extraction has replaced the payload of an earlier one
C9_Witness ==
  /\ extResult.success
  /\ extResult.caller = "update"
  /\ extResult.pre[1].data \in Payloads
  /\ extResult.data # extResult.pre[1].data

\* ----------------------------------------------------------------------- C10
\* C10: after a failed extraction on an existing record the record holds the
\* data it held at the call, updateStatus failed, the failure message as
\* lastError, a time of the call's duration as lastUpdateAttempt, and the
\* lastUpdated and lastSuccessfulUpdate it had; the call returns
\* {success: false, error} with that message.
C10_FailureKeepsData ==
  (extResult.caller # "" /\ ~extResult.success /\ extResult.pre # <<>>) =>
    /\ extResult.post # <<>>
    /\ extResult.error # ""
    /\ LET pre == extResult.pre[1]
           post == extResult.post[1]
       IN  /\ store[extResult.endpoint] = post
           /\ post.data = pre.data
           /\ post.metadata.updateStatus = "failed"
           /\ post.metadata.lastError = extResult.error
           /\ extResult.calledAt <= post.metadata.lastUpdateAttempt
           /\ post.metadata.lastUpdateAttempt <= extResult.time
           /\ post.metadata.lastUpdated = pre.metadata.lastUpdated
           /\ post.metadata.lastSuccessfulUpdate = pre.metadata.lastSuccessfulUpdate

\* a scheduled extraction has failed on a record that holds a payload
C10_Witness ==
  /\ extResult.caller = "update"
  /\ ~extResult.success
  /\ extResult.pre # <<>>
  /\ extResult.pre[1].data \in Payloads
  /\ extResult.post # <<>>
  /\ extResult.post[1].data = extResult.pre[1].data

\* the timers pending for endpoint e
PendingTimers(e) == {tm \in timers : tm.config.endpoint = e}

\* ----------------------------------------------------------------------- C11
\* C11: a record has metadata.lastError only while its updateStatus is
\* failed; a success after a failure leaves no lastError.
C11_LastErrorOnlyWhenFailed ==
  \A r \in DOMAIN store :
    (HasMetadata(store[r]) /\ "lastError" \in DOMAIN store[r].metadata)
      => store[r].metadata.updateStatus = "failed"

\* ----------------------------------------------------------------------- C12
\* C12: at most one timer is pending per endpoint, and it is the one
\* scheduledJobs names, whatever the overlap of the scheduleEndpoint calls
\* of deploy, bootstrap and timer callbacks.
C12_OneTimerPerEndpoint ==
  \A e \in Routes :
    /\ Cardinality(PendingTimers(e)) <= 1
    /\ \A tm \in PendingTimers(e) :
         e \in DOMAIN scheduledJobs /\ scheduledJobs[e] = tm.id

\* a scheduleEndpoint call has replaced a pending timer while another
\* scheduleEndpoint call for the endpoint is in flight
C12_Witness ==
  /\ schedResult.ok
  /\ \E tm \in PendingTimers(schedResult.endpoint) : tm.id > 1
  /\ \E i \in Slots :
       /\ tasks[i] # Idle
       /\ tasks[i].pc = "s_get"
       /\ tasks[i].endpoint = schedResult.endpoint

\* ----------------------------------------------------------------------- C13
\* C13: when scheduleEndpoint returns false, no timer is pending for the
\* endpoint, also if one was armed before the call.
C13_FailedScheduleLeavesNoTimer ==
  (schedResult.caller # "" /\ ~schedResult.ok)
    => PendingTimers(schedResult.endpoint) = {}

\* ----------------------------------------------------------------------- C14
\* C14: when the extraction of a timer callback returns, with success or
\* with failure, the callback is in scheduleEndpoint; and with a configured
\* ENCRYPTION_KEY that call arms the next timer, at a later time.
C14_UpdateAlwaysReschedules ==
  /\ extResult.caller = "update" =>
       \E i \in Slots :
         /\ tasks[i] # Idle
         /\ tasks[i].kind = "update"
         /\ tasks[i].pc = "s_get"
         /\ tasks[i].endpoint = extResult.endpoint
  /\ (schedResult.caller = "update" /\ secret # "unset") =>
       /\ schedResult.ok
       /\ \E tm \in PendingTimers(schedResult.endpoint) : tm.due > now

\* a timer callback whose extraction failed has armed the next timer
C14_Witness ==
  /\ schedResult.caller = "update"
  /\ schedResult.ok
  /\ store[schedResult.endpoint].metadata.updateStatus = "failed"
  /\ PendingTimers(schedResult.endpoint) # {}

\* ----------------------------------------------------------------------- C15
\* C15: the record deploy is about to write has updateStatus initializing;
\* deploy answers success only after its first extraction has run; and after
\* a deploy whose first extraction failed the scheduler was not called and
\* no timer is pending for the route.
C15_DeployExtractsBeforeAnswer ==
  /\ \A i \in Slots :
       (tasks[i] # Idle /\ tasks[i].pc = "d_set")
         => tasks[i].record.metadata.updateStatus = "initializing"
  /\ deployResult.status = 200
       => deployResult.extractionStatus \in {"success", "failed"}
  /\ (deployResult.status = 200 /\ deployResult.extractionStatus = "failed")
       => /\ ~deployResult.scheduled
          /\ PendingTimers(deployResult.route) = {}

\* ----------------------------------------------------------------------- C16
\* C16: a record is created with updateStatus initializing; when deploy
\* answers success the status of its record is success or failed; and a
\* status that is success or failed only changes to success or failed.
Settled == {"success", "failed"}

C16_StatusLifecycle ==
  [][/\ \A r \in DOMAIN store' \ DOMAIN store :
          store'[r].metadata.updateStatus = "initializing"
     /\ deployResult'.status = 200 =>
          /\ deployResult'.route \in DOMAIN store'
          /\ store'[deployResult'.route].metadata.updateStatus \in Settled
     /\ \A r \in DOMAIN store :
          store[r].metadata.updateStatus \in Settled
            => /\ r \in DOMAIN store'
               /\ store'[r].metadata.updateStatus \in Settled]_vars

\* ----------------------------------------------------------------------- C17
\* C17: when the first extraction of a deploy fails, deploy answers 200 with
\* success = true, the route, the minted apiKey and extractionStatus =
\* failed, and the record exists with that apiKey, updateStatus failed, a
\* lastError and empty data.
C17_FailedFirstExtractionStillDeploys ==
  (extResult.caller = "deploy" /\ ~extResult.success) =>
    LET d == deployResult
        e == extResult.endpoint
    IN  /\ d.status = 200 /\ d.success
        /\ d.route = e
        /\ d.apiKey \in ApiKeys
        /\ d.extractionStatus = "failed"
        /\ d.extractionError = extResult.error
        /\ e \in DOMAIN store
        /\ store[e].metadata.apiKey = d.apiKey
        /\ store[e].metadata.updateStatus = "failed"
        /\ "lastError" \in DOMAIN store[e].metadata
        /\ store[e].metadata.lastError # ""
        /\ store[e].data = EmptyData

\* a deploy has answered after its first extraction failed
C17_Witness ==
  /\ extResult.caller = "deploy" /\ ~extResult.success
  /\ deployResult.status = 200
  /\ deployResult.extractionStatus = "failed"
  /\ store[deployResult.route].metadata.updateStatus = "failed"

\* ----------------------------------------------------------------------- C18
\* C18: a response of the results route given while the record is still
\* initializing is the 504 of the timed-out wait, never a success payload.
C18_InitializingNeverAnsweredAsSuccess ==
  (/\ readResult.status # 0
   /\ readResult.endpoint \in DOMAIN store
   /\ store[readResult.endpoint].metadata.updateStatus = "initializing")
    => (readResult.status = 504 /\ ~readResult.success)

\* ----------------------------------------------------------------------- C19
\* C19: a read of a settled record answers success with the stored data
\* whatever its age; it is stale, with the warning, exactly when
\* now - lastUpdated > MAX_AGE, and fresh otherwise, also at exactly MAX_AGE.
C19_StaleOnlyWhenOlderThanMaxAge ==
  readResult.status = 200 =>
    LET r == store[readResult.endpoint]
        age == now - r.metadata.lastUpdated
    IN  /\ readResult.success
        /\ readResult.data = IF readResult.includeSchema THEN r ELSE r.data
        /\ readResult.isFresh = (age <= MAX_AGE)
        /\ readResult.warning = (age > MAX_AGE)

\* ----------------------------------------------------------------------- C20
\* the record after the deploy's first extraction returned FirstPayload
AfterFirstExtraction == SuccessUpdate(FirstRecord, FirstPayload, 0)

\* C20 as stated: while nothing else has written the record, every read
\* (without ?schema=true) with the returned apiKey answers success with
\* data = FirstPayload, updateStatus = success and isFresh = true. The read
\* at an age of exactly MAX_AGE, the case of C19, is left out.
C20_ReadAfterDeployAlwaysFresh ==
  (/\ readResult.status # 0
   /\ ~readResult.includeSchema
   /\ readResult.endpoint = <<"a">>
   /\ store[<<"a">>] = AfterFirstExtraction
   /\ now - AfterFirstExtraction.metadata.lastUpdated # MAX_AGE)
    => /\ readResult.status = 200 /\ readResult.success
       /\ readResult.data = FirstPayload
       /\ readResult.updateStatus = "success"
       /\ readResult.isFresh

\* C20 amended: while nothing else has written the record, every read
\* without ?schema=true that responds less than MAX_AGE after the first
\* extraction answers success with data = FirstPayload, updateStatus =
\* success and isFresh = true.
C20_ReadAfterDeployFreshWithinMaxAge ==
  (/\ readResult.status # 0
   /\ ~readResult.includeSchema
   /\ readResult.endpoint = <<"a">>
   /\ store[<<"a">>] = AfterFirstExtraction
   /\ now - AfterFirstExtraction.metadata.lastUpdated < MAX_AGE)
    => /\ readResult.status = 200 /\ readResult.success
       /\ readResult.data = FirstPayload
       /\ readResult.updateStatus = "success"
       /\ readResult.isFresh
       /\ ~readResult.warning

\* a read one tick after the first extraction has answered with its payload
C20_Witness ==
  /\ readResult.status = 200
  /\ ~readResult.includeSchema
  /\ readResult.endpoint = <<"a">>
  /\ store[<<"a">>] = AfterFirstExtraction
  /\ readResult.data = FirstPayload
  /\ readResult.isFresh
  /\ now = 1

\* ----------------------------------------------------------------------- C21
\* C21: every stored scraping key decrypts, by any decrypt call of the
\* process, to the plaintext deploy encrypted, with or without a configured
\* ENCRYPTION_KEY; and a scheduleEndpoint call that arms a timer gives it
\* that plaintext.
C21_DecryptRecoversEncrypted ==
  \A e \in DOMAIN store :
    LET c == store[e].metadata.firecrawlApiKey
    IN  /\ \A d \in decrypt(c, secret) : d = c.text
        /\ \A tm \in PendingTimers(e) : tm.config.firecrawlApiKey = c.text

\* ------------------------------------------- overlapping deploys, deletion
\* the record of an endpoint is removed from the store by its owner (no
\* handler of the program deletes; the worker provides for the absent record)
Delete ==
  /\ \E e \in DOMAIN store :
       store' = [r \in DOMAIN store \ {e} |-> store[r]]
  /\ NoOut
  /\ UNCHANGED <<rate, rateExpiry, now, secret, tasks, timers, scheduledJobs, admitted>>

\* two request bodies whose routes clean to the same route
ConcBodies == {GoodBody(<<"a">>), GoodBody(<<"A", " ">>)}

\* the process runs with ENCRYPTION_KEY configured
InitConc == Init /\ secret = "s1"

\* the steps of the extraction worker and of scheduleEndpoint
WorkerStep(i) ==
  \/ ExtCall(i) \/ ExtRead(i) \/ ExtWrite(i) \/ ExtFailRead(i) \/ ExtFailWrite(i)
  \/ SchedRead(i)

\* deploys whose handlers overlap, and their first extractions
DeployConcNext ==
  \E i \in Slots :
    \/ DeployStartFrom(i, MaxTasks, ConcBodies) \/ DeployCheck(i) \/ DeployStore(i)
    \/ SrcDeployStore(i) \/ SrcDeployVerify(i)
    \/ WorkerStep(i)

SpecDeployConc == InitConc /\ [][DeployConcNext]_vars

\* README.md deploys whose handlers overlap, their first extractions, and
\* the deletion of the record
ExtConcNext ==
  \/ Delete
  \/ \E i \in Slots :
       \/ DeployStartWith(i, MaxTasks, {GoodBody(<<"a">>)}, {"deploy"})
       \/ DeployCheck(i) \/ DeployStore(i)
       \/ WorkerStep(i)

SpecExtConc == InitConc /\ [][ExtConcNext]_vars

\* ----------------------------------------------- who writes the records
\* the deploy of DeployAtExtract with updateFrequency cron, and its record
FrameTask(cron) ==
  [DeployAtExtract EXCEPT !.body.updateFrequency = cron,
                          !.record.metadata.updateFrequency = cron,
                          !.pre = <<[FirstRecord EXCEPT !.metadata.updateFrequency = cron]>>]

\* a deploy whose cron expression may not parse, at the external call of
\* its first extraction
InitFrame ==
  /\ \E cron \in {"*/1 * * * *", "61 * * * *"} :
       /\ store = [r \in {<<"a">>} |-> FrameTask(cron).record]
       /\ tasks = [i \in Slots |-> IF i = 1 THEN FrameTask(cron) ELSE Idle]
  /\ rate = [k \in ApiKeys |-> {}]
  /\ rateExpiry = [k \in ApiKeys |-> Never]
  /\ now = 0
  /\ secret = "s1"
  /\ timers = {}
  /\ scheduledJobs = <<>>
  /\ authResult = NoAuthResult
  /\ deployResult = NoDeployResult
  /\ extResult = NoExtResult
  /\ admitted = [k \in ApiKeys |-> [u \in Times |-> 0]]
  /\ schedResult = NoSchedResult
  /\ readResult = NoReadResult
  /\ initialized = FALSE
  /\ initResult = NoInitResult
  /\ proxyResult = NoProxyResult

\* validateApiKey with the rate limiter, reads of the results, the bootstrap
\* and scheduleEndpoint overlapping the first extraction of the deploy
FrameNext ==
  \E i \in Slots :
    \/ GateStep(i, FALSE) \/ ReadStep(i) \/ WorkerStep(i) \/ InitKeys(i)
    \/ ReadStart(i, MaxTasks) \/ InitStart(i, MaxTasks)

SpecFrame == InitFrame /\ [][FrameNext]_vars

\* ------------------------------------------------ bootstrap after a restart
\* the record of route with updateFrequency cron, as the worker wrote it at
\* time 0 after the deploy
BootRecord(route, cron) ==
  SuccessUpdate(initialData([GoodBody(route) EXCEPT !.updateFrequency = cron], "sk_1",
                            CipherText("iv1", <<"sha256", "s1">>, "fc1"), 0),
                FirstPayload, 0)

\* a process that starts, with or without ENCRYPTION_KEY, on a store holding
\* two endpoints deployed under the key "s1", the first with a cron
\* expression that may not parse: no timer is armed yet
InitBoot ==
  /\ \E cron \in {"*/1 * * * *", "61 * * * *"} :
       store = [r \in {<<"a">>, OtherRoute} |->
                  IF r = <<"a">> THEN BootRecord(r, cron)
                  ELSE BootRecord(r, "*/1 * * * *")]
  /\ tasks = [i \in Slots |-> Idle]
  /\ rate = [k \in ApiKeys |-> {}]
  /\ rateExpiry = [k \in ApiKeys |-> Never]
  /\ now = 0
  /\ secret \in Secrets
  /\ timers = {}
  /\ scheduledJobs = <<>>
  /\ authResult = NoAuthResult
  /\ deployResult = NoDeployResult
  /\ extResult = NoExtResult
  /\ admitted = [k \in ApiKeys |-> [u \in Times |-> 0]]
  /\ schedResult = NoSchedResult
  /\ readResult = NoReadResult
  /\ initialized = FALSE
  /\ initResult = NoInitResult
  /\ proxyResult = NoProxyResult

\* the bootstrap and the updates of the timers it arms, one handler after
\* the other
BootNext ==
  \/ Tick(MaxTime)
  \/ \E i \in Slots :
       \/ InitStart(i, 1) \/ InitKeys(i) \/ TimerFire(i, 1) \/ WorkerStep(i)

SpecBoot == InitBoot /\ [][BootNext]_vars

\* ----------------------------------------------- replacement of a record
\* a deploy of the route of the seed with another query and other sources
RedeployBody == [GoodBody(<<"a">>) EXCEPT !.query = "q2", !.sources = <<"u2">>]

\* after the first deploy: its timer, deletion of the record, a new README.md
\* deploy of the same route and the updates, one handler after the other
RedeployNext ==
  \/ Tick(MaxTime)
  \/ Delete
  \/ \E i \in Slots :
       \/ DeployStartWith(i, 1, {RedeployBody}, {"deploy"})
       \/ DeployCheck(i) \/ DeployStore(i)
       \/ WorkerStep(i) \/ TimerFire(i, 1)

SpecRedeploy == InitSched /\ [][RedeployNext]_vars

\* ------------------------------------------------- overlapping extractions
\* the first extraction of the deploy, a bootstrap that arms a timer for its
\* record and the updates of the timers, overlapping, while time passes
StampNext ==
  \/ Tick(MaxTime)
  \/ \E i \in Slots :
       \/ WorkerStep(i) \/ InitKeys(i)
       \/ InitStart(i, MaxTasks) \/ TimerFire(i, MaxTasks)

SpecStampConc == InitReadConc /\ [][StampNext]_vars

\* ------------------------------------------------- a failing key scan
\* initializeScheduler: `await redis.keys` rejects (the store cannot be
\* reached). Its catch block logs and returns, initializeServices returns,
\* and the init route sets `initialized` and answers success
InitKeysRejects(i) ==
  /\ tasks[i].kind = "init" /\ tasks[i].pc = "i_keys"
  /\ tasks' = [tasks EXCEPT ![i] = Idle]
  /\ OutInit(NoSchedResult, InitAnswer("Services initialized successfully"), TRUE)
  /\ UNCHANGED <<store, rate, rateExpiry, now, secret, timers, scheduledJobs, admitted>>

\* the bootstrap of a restarted process whose key scan may fail
BootFailNext == BootNext \/ \E i \in Slots : InitKeysRejects(i)

SpecBootFail == InitBoot /\ [][BootFailNext]_vars

\* ------------------------------------------------- claims C22 and C24
\* handlers waiting for the answer of firecrawl.extract
AtExternalCall ==
  {i \in Slots : tasks[i].kind # "idle" /\ tasks[i].pc \in {"x_call", "p_call"}}

\* C22: the external service is only ever called with a schema that has
\* non-empty properties, a non-empty list of sources and a non-empty key,
\* by the worker and by the proxy.
C22_NoCallOnInvalidInput ==
  \A i \in AtExternalCall :
    LET t == tasks[i]
        urls == IF t.kind = "proxy" THEN t.urls ELSE t.sources
    IN  /\ "properties" \in DOMAIN t.schema
        /\ t.schema.properties # {}
        /\ urls # <<>>
        /\ t.key # ""

\* the schema has the fields type, properties and required, and required
\* is the full set of property keys
FullyRequired(schema) ==
  /\ DOMAIN schema = {"type", "properties", "required"}
  /\ schema.required = schema.properties

\* C24 (as stated): the schema sent is a fixed point of the normalization,
\* and a schema whose required is the full key set is sent unchanged.
C24_NormalizationIdempotent ==
  \A i \in AtExternalCall :
    /\ formattedSchema(tasks[i].sent) = tasks[i].sent
    /\ FullyRequired(tasks[i].schema) => tasks[i].sent = tasks[i].schema

\* C24 (amended): the schema sent is a fixed point of the normalization,
\* and a schema of type 'object' whose required is the full key set is sent
\* unchanged.
C24_NormalizationIdempotentForObjects ==
  \A i \in AtExternalCall :
    /\ formattedSchema(tasks[i].sent) = tasks[i].sent
    /\ (FullyRequired(tasks[i].schema) /\ tasks[i].schema.type = "object")
         => tasks[i].sent = tasks[i].schema

\* the worker sends a fully required schema of type 'object'
C24_Witness ==
  \E i \in AtExternalCall :
    /\ tasks[i].kind = "deploy"
    /\ FullyRequired(tasks[i].schema) /\ tasks[i].schema.type = "object"
    /\ tasks[i].sent = tasks[i].schema

\* ------------------------------------------------------------ claim C23
\* handler i completes a write of the worker in this step
WorkerWrites(i) ==
  /\ tasks[i].kind # "idle"
  /\ tasks[i].pc \in {"x_set", "x_fail_set"}
  /\ tasks'[i] # tasks[i]

\* C23: a worker whose record is gone when it comes to write (deleted since
\* its read) leaves the record absent and returns a failure, the not-found
\* failure when it was about to write a payload.
C23_DeletedRecordNeverRecreated ==
  [][\A i \in Slots :
       (WorkerWrites(i) /\ tasks[i].endpoint \notin DOMAIN store)
         => /\ tasks[i].endpoint \notin DOMAIN store'
            /\ ~extResult'.success
            /\ tasks[i].pc = "x_set" => extResult'.error = "Endpoint data not found"]_vars

\* ------------------------------------------------------------ claim C26
\* C26: the write of the worker is unguarded: whatever the store holds when
\* a worker comes to write, the record afterwards is the one that worker
\* built from its own earlier read (the last writer wins).
C26_LastWriterWins ==
  [][\A i \in Slots :
       WorkerWrites(i) => /\ tasks[i].endpoint \in DOMAIN store'
                          /\ store'[tasks[i].endpoint] = tasks[i].updatedData]_vars

\* a lost update: an extraction has written its payload with status success
\* and returned, and an overlapping failed extraction, which had read the
\* record before, has just written it back without that payload
C26_Witness ==
  /\ extResult.caller = "deploy" /\ ~extResult.success
  /\ extResult.endpoint \in DOMAIN store
  /\ extResult.post = <<store[extResult.endpoint]>>
  /\ store[extResult.endpoint].data = EmptyData
  /\ store[extResult.endpoint].metadata.updateStatus = "failed"
  /\ \E j \in Slots :
       /\ tasks[j].kind = "deploy" /\ tasks[j].pc = "s_get"
       /\ tasks[j].endpoint = extResult.endpoint
       /\ tasks[j].updatedData.metadata.updateStatus = "success"
       /\ tasks[j].updatedData.data = tasks[j].payload
       /\ tasks[j].payload # EmptyData

\* ------------------------------------------------------------ claim C25
\* C25: only a write of the extraction worker changes a record: every step
\* of validateApiKey, of the rate limiter, of a results-read (its wait
\* included), of the bootstrap and of scheduleEndpoint, returning true or
\* false, leaves every stored record as it is and creates none.
C25_OnlyTheWorkerWritesRecords ==
  [][\A e \in DOMAIN store \cup DOMAIN store' :
       (e \notin DOMAIN store \/ e \notin DOMAIN store' \/ store'[e] # store[e])
         => \E i \in Slots : WorkerWrites(i) /\ tasks[i].endpoint = e]_vars

\* scheduleEndpoint has just returned false for a record that the worker
\* wrote, while a results-read that waited for the initialization is in flight
C25_Witness ==
  /\ schedResult.caller = "deploy" /\ ~schedResult.ok
  /\ schedResult.endpoint \in DOMAIN store
  /\ store[schedResult.endpoint].metadata.updateStatus = "success"
  /\ \E j \in Slots : tasks[j].kind = "read" /\ tasks[j].pc = "r_refresh"

\* ------------------------------------------------------------ claim C27
\* scheduleEndpoint arms a timer for the record: the required fields are
\* there, the scraping key decrypts and the cron expression parses
Schedulable(storedData) ==
  /\ HasMetadata(storedData)
  /\ \A f \in requiredFields : ~Missing(MetadataOf(storedData), f)
  /\ "#throw" \notin decrypt(storedData.metadata.firecrawlApiKey, secret)
  /\ CronParses(storedData.metadata.updateFrequency)

\* C27: when the bootstrap returns, every stored endpoint whose metadata is
\* schedulable has exactly one armed timer, whether or not scheduleEndpoint
\* failed for another endpoint of the scan.
C27_BootstrapArmsEverySchedulable ==
  (initResult.message = "Services initialized successfully")
    => \A e \in DOMAIN store :
         Schedulable(store[e]) => Cardinality(PendingTimers(e)) = 1

\* the bootstrap returns after a scan whose last call of scheduleEndpoint
\* failed, for an endpoint that is not schedulable, and the other endpoint
\* is armed
C27_Witness ==
  /\ initResult.message = "Services initialized successfully"
  /\ schedResult.caller = "init" /\ ~schedResult.ok
  /\ \E e \in DOMAIN store : ~Schedulable(store[e])
  /\ \E e \in DOMAIN store : Schedulable(store[e]) /\ Cardinality(PendingTimers(e)) = 1

\* ------------------------------------------------------------ claim C28
\* the handlers of the init route that are running the bootstrap
Bootstraps == {i \in Slots : tasks[i].kind = "init"}

\* C28: the bootstrap runs at most once in the process: no two requests to
\* the init route run it, overlapping or one after the other was answered.
C28_BootstrapRunsOnce ==
  /\ Cardinality(Bootstraps) <= 1
  /\ initialized => Bootstraps = {}

\* ------------------------------------------------------------ claim C29
\* C29: a results-read that waited for the initialization and answers once
\* the record has left initializing responds success with the data,
\* lastUpdated, sources and updateStatus of the record as it is stored then.
C29_WaitingReadAnswersStoredRecord ==
  (/\ readResult.status # 0 /\ readResult.waited
   /\ readResult.endpoint \in DOMAIN store
   /\ store[readResult.endpoint].metadata.updateStatus # "initializing")
    => LET r == store[readResult.endpoint]
       IN  /\ readResult.status = 200 /\ readResult.success
           /\ readResult.data = IF readResult.includeSchema THEN r ELSE r.data
           /\ readResult.lastUpdated = r.metadata.lastUpdated
           /\ readResult.sources = r.metadata.sources
           /\ readResult.updateStatus = r.metadata.updateStatus

\* ------------------------------------------------------------ claim C30
\* the deploy handlers that found the route free and go on to create it
PastExistsCheck(route) ==
  {i \in Slots : /\ tasks[i].kind \in {"deploy", "srcdeploy"}
                 /\ tasks[i].pc # "d_get"
                 /\ tasks[i].route = route}

\* C30: of the deploys that target one sanitized route, at most one finds it
\* free and creates the record, and the apiKey a deploy returns with
\* success is the one the record holds.
C30_OneDeployCreatesTheRoute ==
  /\ \A route \in Routes : Cardinality(PastExistsCheck(route)) <= 1
  /\ deployResult.success
       => /\ deployResult.route \in DOMAIN store
          /\ store[deployResult.route].metadata.apiKey = deployResult.apiKey

\* ------------------------------------------------------------ claim C31
\* the status codes validateApiKey rejects a request with
Rejections == {401, 404, 500, 429}

\* C31: a step in which validateApiKey rejects a request, with 401, 404,
\* 500 or 429, leaves every rate-limit set and its expiry as they are, and
\* the rejected handler has not reached the zadd of checkRateLimit before.
C31_RejectionLeavesRateState ==
  [][authResult'.statusCode \in Rejections
       => /\ rate' = rate /\ rateExpiry' = rateExpiry
          /\ \A i \in Slots :
               (tasks[i].kind = "validate" /\ tasks'[i] = Idle)
                 => tasks[i].pc \in {"get", "zrange"}]_vars

\* a request is rejected with 429 while the set of its token holds the
\* entries of the admitted requests, and no more than those
C31_Witness ==
  /\ authResult.statusCode = 429
  /\ rate[authResult.token] # {}
  /\ Cardinality(rate[authResult.token]) <= RATE_LIMIT_MAX

\* ------------------------------------------------------------ claim C32
\* C32: when the README.md deploy responds, updateScheduled is true exactly
\* when a timer is armed for the route; it is false when scheduleEndpoint
\* returned false.
C32_UpdateScheduledIffTimerArmed ==
  (deployResult.success /\ deployResult.handler = "deploy")
    => /\ deployResult.updateScheduled <=> PendingTimers(deployResult.route) # {}
       /\ (schedResult.caller = "deploy" /\ ~schedResult.ok)
            => ~deployResult.updateScheduled

\* ------------------------------------------------------------ claim C33
\* C33: when a timer fires for an endpoint that has a record, the update it
\* starts runs with the query, schema and sources of that record and with
\* the scraping key the record holds encrypted.
C33_UpdateUsesStoredConfig ==
  [][\A i \in Slots :
       (/\ tasks[i] = Idle /\ tasks'[i] # Idle /\ tasks'[i].kind = "update"
        /\ tasks'[i].endpoint \in DOMAIN store)
         => LET m == store[tasks'[i].endpoint].metadata
            IN  /\ tasks'[i].query = m.query
                /\ tasks'[i].schema = m.schema
                /\ tasks'[i].sources = m.sources
                /\ tasks'[i].key = m.firecrawlApiKey.text]_vars

\* ------------------------------------------------------------ claim C34
\* C34: a record whose updateStatus is success or failed is not
\* initializing after any step that leaves the record in the store.
C34_NeverBackToInitializing ==
  [][\A e \in DOMAIN store \cap DOMAIN store' :
       store[e].metadata.updateStatus \in {"success", "failed"}
         => store'[e].metadata.updateStatus # "initializing"]_vars

\* ------------------------------------------------------------ claim C35
\* two extractions of the same endpoint are in flight
Overlapping(e) ==
  \E i, j \in Slots :
    /\ i # j
    /\ tasks[i].kind \in {"deploy", "update"} /\ tasks[j].kind \in {"deploy", "update"}
    /\ tasks[i].endpoint = e /\ tasks[j].endpoint = e
    /\ tasks[i].pc # "s_get" /\ tasks[j].pc # "s_get"

\* C35: in every stored record a lastSuccessfulUpdate that is not null
\* equals lastUpdated and is not later than lastUpdateAttempt, and with
\* updateStatus success the three timestamps are equal.
C35_TimestampsConsistent ==
  \A e \in DOMAIN store :
    LET m == store[e].metadata
    IN  /\ m.lastSuccessfulUpdate # Null
             => /\ m.lastSuccessfulUpdate = m.lastUpdated
                /\ m.lastSuccessfulUpdate <= m.lastUpdateAttempt
        /\ m.updateStatus = "success"
             => /\ m.lastUpdated = m.lastUpdateAttempt
                /\ m.lastUpdateAttempt = m.lastSuccessfulUpdate

\* a timer update has just written a success, the three timestamps equal,
\* while the first extraction of the deploy, which read the record earlier,
\* is about to write its older record over it
C35_Witness ==
  /\ extResult.caller = "update" /\ extResult.success
  /\ extResult.endpoint \in DOMAIN store
  /\ extResult.post = <<store[extResult.endpoint]>>
  /\ store[extResult.endpoint].metadata.updateStatus = "success"
  /\ store[extResult.endpoint].metadata.lastSuccessfulUpdate = now
  /\ \E j \in Slots :
       /\ tasks[j].kind = "deploy" /\ tasks[j].pc \in {"x_set", "x_fail_set"}
       /\ tasks[j].endpoint = extResult.endpoint
       /\ tasks[j].updatedData.metadata.lastUpdateAttempt < now

\* ------------------------------------------------------------ claim C36
\* C36: every write of an extraction stores a lastUpdateAttempt that is
\* greater than or equal to the one stored before it (a null one counts as
\* earlier than every time).
C36_AttemptNeverMovesBack ==
  [][\A i \in Slots :
       (WorkerWrites(i) /\ tasks[i].endpoint \in DOMAIN store
          /\ tasks[i].endpoint \in DOMAIN store')
         => store'[tasks[i].endpoint].metadata.lastUpdateAttempt
              >= store[tasks[i].endpoint].metadata.lastUpdateAttempt]_vars

\* ------------------------------------------------------------ claim C37
\* C37: a results response reports isFresh = true only for a record that
\* holds the payload of a successful extraction completed less than MAX_AGE
\* ago; a record whose extractions all failed (lastSuccessfulUpdate null,
\* data empty) is never reported fresh.
C37_FreshOnlyAfterRecentSuccess ==
  (readResult.status = 200 /\ readResult.isFresh)
    => /\ readResult.endpoint \in DOMAIN store
       /\ LET storedData == store[readResult.endpoint]
          IN  /\ storedData.metadata.lastSuccessfulUpdate # Null
              /\ now - storedData.metadata.lastSuccessfulUpdate < MAX_AGE
              /\ storedData.data # EmptyData

\* ------------------------------------------------------------ claim C38
\* C38: a bootstrap that ends at the key scan while endpoints are stored
\* (the scan failed) makes the init route answer 500 and leaves the process
\* not initialized; the process becomes initialized only in a state where
\* every stored endpoint that can be scheduled has an armed timer.
C38_FailedBootstrapIsRetried ==
  [][/\ \A i \in Slots :
          (/\ tasks[i].kind = "init" /\ tasks[i].pc = "i_keys"
           /\ tasks'[i] = Idle /\ DOMAIN store # {})
            => initResult'.status = 500 /\ ~initialized'
     /\ (~initialized /\ initialized')
          => \A e \in DOMAIN store' :
               Schedulable(store'[e]) => \E tm \in timers' : tm.config.endpoint = e]_vars

====
